---- MODULE Spec2Model ----
(***************************************************************************)
(* Project Fyr: alert intake with sticky throttling (webhook.py), the      *)
(* alert correlator/batcher (service.py, AlertBatcher), the deployment     *)
(* watch handler and the reconcile loop (service.py,                       *)
(* handle_deployment_event, reconcile_rollout) and the analysis worker     *)
(* (service.py, AnalysisWorker) over the store of db.py.                   *)
(*                                                                         *)
(* Time is in seconds.  Optional values (Python None) are sequences:       *)
(* <<>> is None and <<x>> is the value x.  Python dicts (an alert item,    *)
(* its labels) are functions whose domain is the set of keys present.      *)
(* Label values that are formatted into the correlation key are sequences  *)
(* of characters, so that the f-string join and split("/", 1) are          *)
(* computed and not assumed to be inverse to each other.                   *)
(***************************************************************************)
EXTENDS Integers, Sequences, FiniteSets, Bags, TLC

VARIABLES
    now,              \* the wall clock, datetime.utcnow()
    config,           \* Settings: the fields the modelled code reads
    alerts,           \* table alerts: sequence of AlertRecord, id = index
    alert_states,     \* table alert_states: fingerprint -> AlertStateRecord
    batches,          \* table alert_batches, id = index
    jobs,             \* table investigation_jobs, id = index
    triggered,        \* items counted by investigation_triggered_count, in order
    runs_since_alert, \* batcher runs completed since the last alert arrived (capped)
    workers,          \* webhook workers: position and locals of receive_alert
    batcher,          \* the batcher thread: position and locals of run_once
    rollouts,         \* table rollouts, id = index
    replayed,         \* an event for an already stored rollout identity was handled
    reconcile_outcome, \* the last reconcile step: "unreadable", "written" or "skipped"
    probe,            \* the last call of a pure function: its argument and its result
    analyses,         \* table analyses: sequence of AnalysisRecord, id = index
    agent_log,        \* calls of InvestigatorAgent.investigate made so far: a bag
    slack_log,        \* messages SlackNotifier.send_analysis delivered so far: a bag
    response,         \* the answer to the last webhook request: status code and body
    incidents,        \* table namespace_incidents, id = index
    detectors,        \* the namespace detectors: position and locals of one pass
    watcher,          \* the watch thread: position of _watch_loop
    ns_cache,         \* NamespaceMetadataCache._cache: namespace -> (time, data)
    cache_lock,       \* NamespaceMetadataCache._lock: the caller holding it, or None
    callers,          \* callers of NamespaceMetadataCache.get: position and locals
    analyzer,         \* the analysis worker thread: position and jobs still to take
    deployed          \* the watched deployment exists in the cluster (not deleted)

alertVars == <<alerts, alert_states, batches, jobs, triggered, runs_since_alert>>
procVars  == <<workers, batcher>>
vars == <<now, config, alerts, alert_states, batches, jobs, triggered,
          runs_since_alert, workers, batcher, rollouts, replayed, reconcile_outcome,
          probe, analyses, agent_log, slack_log, response, incidents, detectors,
          watcher, ns_cache, cache_lock, callers, analyzer, deployed>>
watchVars == <<rollouts, replayed>>
workerVars == <<analyses, agent_log, slack_log>>
incidentVars == <<incidents, detectors>>
cacheVars == <<ns_cache, cache_lock, callers>>
serviceVars == <<watcher, cacheVars, analyzer, deployed>>
auxVars == <<reconcile_outcome, probe, workerVars, response, incidentVars, serviceVars>>

----------------------------------------------------------------------------
(* Bounds of the model *)

MaxAlerts == 3        \* alert records ever stored
MaxItems == 2         \* alert items in one webhook payload
MaxTicks == 2         \* clock advances
MaxMinCount == 2      \* largest configured alert_batch_min_count
MaxConcAlerts == 2    \* alert records ever stored, interleaved specification
MaxConcTicks == 1     \* clock advances, interleaved specification
MaxRollouts == 3      \* rollout rows ever stored
MaxGeneration == 2    \* largest deployment generation observed
MaxReplicas == 3      \* largest replica count of a deployment
MaxPods == 5          \* largest pod count in PodFailureSignals
MaxWebhookAlerts == 2 \* alert records ever stored, webhook specification
MaxWebhookTicks == 1  \* clock advances, webhook specification
MaxIncidents == 3     \* namespace incident rows ever stored
MaxIncidentTicks == 1 \* clock advances, incident specifications
MaxCacheTicks == 3    \* clock advances, namespace cache specification
MaxInvestigations == 3 \* calls of the agent ever made by the analysis worker

(* The clock advances in steps of 12 hours. *)
TickSeconds == 12 * 3600

----------------------------------------------------------------------------
(* Python helpers *)

None == <<>>
Some(x) == <<x>>
IsSome(o) == o # <<>>
The(o) == o[1]

\* dict.get(key, default)
Get(d, key, default) == IF key \in DOMAIN d THEN d[key] ELSE default

\* Index of the first occurrence of character c in s at or after i, 0 if none
RECURSIVE IndexOf(_, _, _)
IndexOf(s, c, i) ==
    IF i > Len(s) THEN 0
    ELSE IF s[i] = c THEN i
    ELSE IndexOf(s, c, i + 1)

\* str.split(sep, 1): at most one split, at the first separator
Split1(s, sep) ==
    LET i == IndexOf(s, sep, 1)
    IN  IF i = 0 THEN <<s>>
        ELSE <<SubSeq(s, 1, i - 1), SubSeq(s, i + 1, Len(s))>>

----------------------------------------------------------------------------
(* Inputs: the alert items a webhook payload may carry *)

STATUS_FIRING == "firing"
STATUS_RESOLVED == "resolved"

\* labels with an empty service and an app label
LabelsApp ==
    [alertname |-> "fp1", namespace |-> <<"a">>, service |-> <<>>,
     app |-> <<"b", "/", "c">>]

\* labels whose namespace value contains the key separator
LabelsSvc ==
    [alertname |-> "fp2", namespace |-> <<"a", "/", "b">>, service |-> <<"c">>,
     app |-> <<"x">>]

Statuses == {STATUS_FIRING, STATUS_RESOLVED, "suppressed"}

Items ==
    {[status |-> s, fingerprint |-> "fp1", labels |-> LabelsApp] : s \in Statuses}
    \cup {[status |-> STATUS_FIRING, fingerprint |-> "", labels |-> LabelsSvc]}
    \cup {[annotations |-> <<>>]}

\* The items delivered in the interleaved specification
ConcItems ==
    {[status |-> s, fingerprint |-> "fp1", labels |-> LabelsApp] : s \in {STATUS_FIRING, STATUS_RESOLVED}}
    \cup {[annotations |-> <<>>]}

Fingerprints == {"fp1", "fp2", "unknown"}

RECURSIVE SeqsUpTo(_, _)
SeqsUpTo(S, n) ==
    IF n = 0 THEN {<<>>}
    ELSE LET shorter == SeqsUpTo(S, n - 1)
         IN  shorter \cup {Append(q, x) : q \in shorter, x \in S}

Payloads == SeqsUpTo(Items, MaxItems)

----------------------------------------------------------------------------
(* AlertRepo: db.py *)

THROTTLE_HOURS == 24

\* AlertRepo.get_state: the row of the fingerprint, or None
get_state(states, fingerprint) ==
    IF fingerprint \in DOMAIN states THEN Some(states[fingerprint]) ELSE None

\* update_state that stamps last_investigated_at on every delivery
update_state_always_stamps(states, fingerprint, status, t, investigated) ==
    [f \in DOMAIN states \cup {fingerprint} |->
        IF f = fingerprint
        THEN [status |-> status, last_received_at |-> t, last_investigated_at |-> Some(t)]
        ELSE states[f]]

\* update_state that leaves the status of an existing row as it was
update_state_keeps_status(states, fingerprint, status, t, investigated) ==
    IF fingerprint \notin DOMAIN states
    THEN [f \in DOMAIN states \cup {fingerprint} |->
            IF f = fingerprint
            THEN [status |-> status, last_received_at |-> t,
                  last_investigated_at |-> IF investigated THEN Some(t) ELSE None]
            ELSE states[f]]
    ELSE [states EXCEPT
            ![fingerprint] =
                [status |-> @.status, last_received_at |-> t,
                 last_investigated_at |->
                    IF investigated THEN Some(t) ELSE @.last_investigated_at]]

\* AlertRepo.update_state: upsert of the state row, one transaction
update_state(states, fingerprint, status, t, investigated) ==
    IF fingerprint \notin DOMAIN states
    THEN [f \in DOMAIN states \cup {fingerprint} |->
            IF f = fingerprint
            THEN [status |-> status, last_received_at |-> t,
                  last_investigated_at |-> IF investigated THEN Some(t) ELSE None]
            ELSE states[f]]
    ELSE [states EXCEPT
            ![fingerprint] =
                [status |-> status, last_received_at |-> t,
                 last_investigated_at |->
                    IF investigated THEN Some(t) ELSE @.last_investigated_at]]

\* AlertRepo.create_alert: a new row with the column defaults batched=0,
\* batch_id=NULL and received_at=utcnow()
create_alert(rows, fingerprint, status, labels, t) ==
    Append(rows, [fingerprint |-> fingerprint, status |-> status, labels |-> labels,
                  received_at |-> t, batched |-> FALSE, batch_id |-> None])

\* The update of the skipped record left out
mark_skipped_forgotten(rows, id) == rows

\* UPDATE alerts SET batched = 1 WHERE id = :id
mark_skipped(rows, id) == [rows EXCEPT ![id].batched = TRUE]

----------------------------------------------------------------------------
(* receive_alert: webhook.py *)

item_status(item) == Get(item, "status", STATUS_FIRING)
item_labels(item) == Get(item, "labels", <<>>)

\* item.get("fingerprint") or labels.get("alertname", "unknown")
item_fingerprint(item) ==
    LET fp == Get(item, "fingerprint", "")
    IN  IF fp # "" THEN fp ELSE Get(item_labels(item), "alertname", "unknown")

\* Throttling that only holds while the stored status is still firing
is_throttled_only_while_firing(state, t) ==
    /\ IsSome(state)
    /\ The(state).status = STATUS_FIRING
    /\ IsSome(The(state).last_investigated_at)
    /\ t - The(The(state).last_investigated_at) < THROTTLE_HOURS * 3600

\* Sticky throttling: investigated less than 24 hours ago, whatever the status
is_throttled(state, t) ==
    /\ IsSome(state)
    /\ IsSome(The(state).last_investigated_at)
    /\ t - The(The(state).last_investigated_at) < THROTTLE_HOURS * 3600

\* The decision without the re-trigger branch for a persistent alert
should_investigate_no_retrigger(status, state, throttled) ==
    /\ status = STATUS_FIRING
    /\ ~throttled
    /\ (~IsSome(state) \/ The(state).status = STATUS_RESOLVED)

\* The decision taken on the throttle alone, whatever the incoming status
should_investigate_any_status(status, state, throttled) == ~throttled

\* The decision of lines 87-102
should_investigate(status, state, throttled) ==
    IF status = STATUS_FIRING
    THEN IF throttled THEN FALSE
         ELSE IF ~IsSome(state) \/ The(state).status = STATUS_RESOLVED THEN TRUE
         ELSE IF The(state).status = STATUS_FIRING THEN TRUE
         ELSE FALSE
    ELSE FALSE

\* One iteration of the loop over the payload's items, on the tables
\* db = [alerts, alert_states, triggered]
process_item(db, item, t) ==
    LET status == item_status(item)
        fingerprint == item_fingerprint(item)
        state == get_state(db.alert_states, fingerprint)
        investigate == should_investigate(status, state, is_throttled(state, t))
        created == create_alert(db.alerts, fingerprint, status, item_labels(item), t)
        id == Len(created)
    IN  [alerts |-> IF investigate THEN created ELSE mark_skipped(created, id),
         triggered |->
            IF investigate
            THEN Append(db.triggered, [alert_id |-> id, fingerprint |-> fingerprint, at |-> t])
            ELSE db.triggered,
         alert_states |->
            update_state(db.alert_states, fingerprint, status, t, investigate)]

RECURSIVE process_items(_, _, _)
process_items(db, items, t) ==
    IF items = <<>> THEN db
    ELSE process_items(process_item(db, Head(items), t), Tail(items), t)

----------------------------------------------------------------------------
(* AlertBatcher.run_once: service.py, and AlertRepo.create_batch: db.py *)

DEFAULT_NAMESPACE == <<"d", "e", "f", "a", "u", "l", "t">>
UNKNOWN_SERVICE == <<"u", "n", "k", "n", "o", "w", "n">>

\* ns = alert.labels.get("namespace", "default")
label_namespace(labels) == Get(labels, "namespace", DEFAULT_NAMESPACE)

\* svc = alert.labels.get("service") or alert.labels.get("app") or "unknown"
label_service(labels) ==
    IF Get(labels, "service", <<>>) # <<>> THEN labels["service"]
    ELSE IF Get(labels, "app", <<>>) # <<>> THEN labels["app"]
    ELSE UNKNOWN_SERVICE

\* key = f"{ns}/{svc}"
group_key(labels) == label_namespace(labels) \o <<"/">> \o label_service(labels)

\* Insertion of id into ids, kept ordered by received_at, after equal elements
RECURSIVE insert_by_received_at(_, _, _)
insert_by_received_at(rows, ids, id) ==
    IF ids = <<>> THEN <<id>>
    ELSE IF rows[Head(ids)].received_at <= rows[id].received_at
         THEN <<Head(ids)>> \o insert_by_received_at(rows, Tail(ids), id)
         ELSE <<id>> \o ids

\* The in-window test of the query
in_window(row, window_start) == row.received_at >= window_start

\* AlertRepo.get_unbatched_alerts: ids of the rows with batched = 0 received
\* at or after window_start, ORDER BY received_at ASC
RECURSIVE get_unbatched_alerts_from(_, _, _)
get_unbatched_alerts_from(rows, window_start, i) ==
    IF i = 0 THEN <<>>
    ELSE LET before == get_unbatched_alerts_from(rows, window_start, i - 1)
         IN  IF ~rows[i].batched /\ in_window(rows[i], window_start)
             THEN insert_by_received_at(rows, before, i)
             ELSE before

get_unbatched_alerts(rows, window_start) ==
    get_unbatched_alerts_from(rows, window_start, Len(rows))

\* groups[key].append(alert), groups being a dict in insertion order
RECURSIVE add_to_group(_, _, _)
add_to_group(groups, key, id) ==
    IF groups = <<>> THEN <<[key |-> key, group |-> <<id>>]>>
    ELSE IF Head(groups).key = key
         THEN <<[key |-> key, group |-> Append(Head(groups).group, id)]>> \o Tail(groups)
         ELSE <<Head(groups)>> \o add_to_group(Tail(groups), key, id)

\* The grouping loop of run_once (lines 43-55) over the ids read
RECURSIVE group_alerts(_, _, _)
group_alerts(rows, ids, groups) ==
    IF ids = <<>> THEN groups
    ELSE group_alerts(rows, Tail(ids),
                      add_to_group(groups, group_key(rows[Head(ids)].labels), Head(ids)))

SeqToSet(q) == {q[i] : i \in DOMAIN q}

RECURSIVE max_received_at(_, _)
max_received_at(rows, ids) ==
    IF Len(ids) = 1 THEN rows[ids[1]].received_at
    ELSE LET rest == max_received_at(rows, Tail(ids))
         IN  IF rows[ids[1]].received_at >= rest THEN rows[ids[1]].received_at ELSE rest

\* create_batch that records batch_id on the members but not batched
create_batch_unmarked(db, group, primary_fingerprint, namespace, service, window_end) ==
    LET batch_id == Len(db.batches) + 1
    IN  [batches |->
            Append(db.batches,
                   [primary_fingerprint |-> primary_fingerprint,
                    namespace |-> namespace, service |-> service,
                    window_end |-> window_end, count |-> Len(group)]),
         alerts |->
            [i \in DOMAIN db.alerts |->
                IF i \in SeqToSet(group)
                THEN [db.alerts[i] EXCEPT !.batch_id = Some(batch_id)]
                ELSE db.alerts[i]],
         jobs |->
            Append(db.jobs,
                   [type |-> "alert", status |-> "pending",
                    alert_batch_id |-> Some(batch_id), rollout_id |-> None,
                    namespace_incident_id |-> None, analysis_id |-> None,
                    started_at |-> None, completed_at |-> None])]

\* create_batch that commits the batch and its members without the job
create_batch_no_job(db, group, primary_fingerprint, namespace, service, window_end) ==
    LET batch_id == Len(db.batches) + 1
    IN  [batches |->
            Append(db.batches,
                   [primary_fingerprint |-> primary_fingerprint,
                    namespace |-> namespace, service |-> service,
                    window_end |-> window_end, count |-> Len(group)]),
         alerts |->
            [i \in DOMAIN db.alerts |->
                IF i \in SeqToSet(group)
                THEN [db.alerts[i] EXCEPT !.batched = TRUE, !.batch_id = Some(batch_id)]
                ELSE db.alerts[i]],
         jobs |-> db.jobs]

\* AlertRepo.create_batch: the batch row, the update of the member alerts and
\* the job row, committed together.  db = [alerts, batches, jobs]; group holds
\* the alert rows read by get_unbatched_alerts, as ids and as read.
create_batch(db, group, primary_fingerprint, namespace, service, window_end) ==
    LET batch_id == Len(db.batches) + 1
    IN  [batches |->
            Append(db.batches,
                   [primary_fingerprint |-> primary_fingerprint,
                    namespace |-> namespace, service |-> service,
                    window_end |-> window_end, count |-> Len(group)]),
         alerts |->
            [i \in DOMAIN db.alerts |->
                IF i \in SeqToSet(group)
                THEN [db.alerts[i] EXCEPT !.batched = TRUE, !.batch_id = Some(batch_id)]
                ELSE db.alerts[i]],
         jobs |->
            Append(db.jobs,
                   [type |-> "alert", status |-> "pending",
                    alert_batch_id |-> Some(batch_id), rollout_id |-> None,
                    namespace_incident_id |-> None, analysis_id |-> None,
                    started_at |-> None, completed_at |-> None])]

\* The size test off by one
below_min_count_off_by_one(group, min_count) == Len(group) < min_count - 1

\* if len(group) < self._min_count: continue
below_min_count(group, min_count) == Len(group) < min_count

\* One iteration of the loop over the groups (lines 57-76); rows are the alert
\* rows as read at the start of the run
batch_group(db, rows, g, min_count) ==
    IF below_min_count(g.group, min_count) THEN db
    ELSE LET parts == Split1(g.key, "/")
         IN  create_batch(db, g.group, rows[g.group[1]].fingerprint,
                          parts[1], parts[2], max_received_at(rows, g.group))

RECURSIVE batch_groups(_, _, _, _)
batch_groups(db, rows, groups, min_count) ==
    IF groups = <<>> THEN db
    ELSE batch_groups(batch_group(db, rows, Head(groups), min_count),
                      rows, Tail(groups), min_count)

\* The groups run_once forms at time t
read_groups(rows, t, window) ==
    group_alerts(rows, get_unbatched_alerts(rows, t - window), <<>>)

\* AlertBatcher.run_once, whole
run_once(db, t, cfg) ==
    batch_groups(db, db.alerts,
                 read_groups(db.alerts, t, cfg.alert_correlation_window_seconds),
                 cfg.alert_batch_min_count)

----------------------------------------------------------------------------
(* The initial state: an empty database *)

Configs ==
    [alert_batch_min_count : 1..MaxMinCount,
     alert_correlation_window_seconds : {TickSeconds},
     rollout_timeout_seconds : {TickSeconds},
     watch_all_namespaces : {FALSE},
     namespace_label_enabled : {TRUE},
     max_investigations_per_namespace_per_hour : {2},
     max_investigations_per_cluster_per_hour : {20},
     alert_webhook_secret : {None}]

\* observed: the keys whose condition the detector last saw triggered;
\* repeats: its passes in a row that saw exactly these (capped at 2)
IdleDetector == [pc |-> "idle", observed |-> {}, repeats |-> 0]
Detectors == {"d1", "d2"}

\* AnalysisWorker.loop between two passes: time.sleep(15)
SleepingAnalyzer == [pc |-> "sleeping", todo |-> {}]

\* A thread that is not inside NamespaceMetadataCache.get
IdleCaller == [pc |-> "idle"]
Callers == {"c1", "c2"}
IdleWorker == [pc |-> "idle"]
IdleBatcher == [pc |-> "idle"]
Workers == {"w1", "w2"}

\* The store and the processes after construction, whatever the settings
InitStore ==
    /\ now = 0
    /\ alerts = <<>>
    /\ alert_states = <<>>
    /\ batches = <<>>
    /\ jobs = <<>>
    /\ triggered = <<>>
    /\ runs_since_alert = 0
    /\ workers = [w \in Workers |-> IdleWorker]
    /\ batcher = IdleBatcher
    /\ rollouts = <<>>
    /\ replayed = FALSE
    /\ reconcile_outcome = "none"
    /\ probe = <<>>
    /\ analyses = <<>>
    /\ agent_log = EmptyBag
    /\ slack_log = EmptyBag
    /\ response = <<>>
    /\ incidents = <<>>
    /\ detectors = [d \in Detectors |-> IdleDetector]
    /\ watcher = [pc |-> "subscribing"]
    /\ ns_cache = <<>>
    /\ cache_lock = None
    /\ callers = [c \in Callers |-> IdleCaller]
    /\ analyzer = SleepingAnalyzer
    /\ deployed = TRUE

Init ==
    /\ config \in Configs
    /\ InitStore

\* Time passes
Advance(max_ticks) ==
    /\ now + TickSeconds <= max_ticks * TickSeconds
    /\ now' = now + TickSeconds
    /\ UNCHANGED <<auxVars, config, alertVars, procVars, watchVars>>

Tick == Advance(MaxTicks)

----------------------------------------------------------------------------
(* Deliveries and batcher runs one after another *)

\* POST /webhook/alert with an "alerts" list: the whole handler
ReceiveAlert(payload) ==
    /\ Len(alerts) + Len(payload) <= MaxAlerts
    /\ LET db == process_items([alerts |-> alerts, alert_states |-> alert_states,
                                triggered |-> triggered], payload, now)
       IN  /\ alerts' = db.alerts
           /\ alert_states' = db.alert_states
           /\ triggered' = db.triggered
    /\ runs_since_alert' = IF payload = <<>> THEN runs_since_alert ELSE 0
    /\ UNCHANGED <<auxVars, now, config, batches, jobs, procVars, watchVars>>

\* One pass of the batcher loop
BatcherRunOnce ==
    /\ LET db == run_once([alerts |-> alerts, batches |-> batches, jobs |-> jobs],
                          now, config)
       IN  /\ alerts' = db.alerts
           /\ batches' = db.batches
           /\ jobs' = db.jobs
    /\ runs_since_alert' = IF runs_since_alert < 2 THEN runs_since_alert + 1 ELSE 2
    /\ UNCHANGED <<auxVars, now, config, alert_states, triggered, procVars, watchVars>>

NextAlerts ==
    \/ Tick
    \/ \E payload \in Payloads : ReceiveAlert(payload)
    \/ BatcherRunOnce

SpecAlerts == Init /\ [][NextAlerts]_vars

----------------------------------------------------------------------------
(* POST /webhook/alert, the whole handler: webhook.py.  A JSON object is a  *)
(* record of its keys; a JSON value that is not an object is a record that *)
(* carries its type under json_type.                                       *)

JSON_STRING == [json_type |-> "string"]
JSON_LIST(items) == [json_type |-> "list", items |-> items]

\* the value has the methods of a dict (.get, .keys)
is_dict(v) == "json_type" \notin DOMAIN v

\* isinstance(v, list)
is_list(v) == ~is_dict(v) /\ v.json_type = "list"

SECRET == "s3cret"
Tokens == {None, Some(SECRET), Some("wrong")}

\* The items of a payload: alert objects, and an entry that is not an object
WebhookItems == ConcItems \cup {JSON_STRING}

\* Request bodies: bytes that are not JSON, a JSON array, an object without
\* "alerts", an object whose "alerts" is a string, and objects with a list
Bodies ==
    {[valid |-> FALSE], [valid |-> TRUE, json |-> JSON_LIST(<<>>)],
     [valid |-> TRUE, json |-> [receiver |-> "team"]],
     [valid |-> TRUE, json |-> [alerts |-> JSON_STRING]]}
    \cup {[valid |-> TRUE, json |-> [alerts |-> JSON_LIST(items)]] :
            items \in SeqsUpTo(WebhookItems, MaxItems)}

\* any body with the right token, and two bodies with each other token
WebhookRequests ==
    {[token |-> Some(SECRET), body |-> b] : b \in Bodies}
    \cup {[token |-> k, body |-> b] :
            k \in Tokens,
            b \in {[valid |-> FALSE],
                   [valid |-> TRUE, json |-> [alerts |-> JSON_LIST(<<[annotations |-> <<>>]>>)]]}}

\* The loop of lines 48-161: item.get raises AttributeError on an item that
\* is not an object, and nothing catches it
RECURSIVE loop_over_items(_, _, _, _)
loop_over_items(db, items, t, saved_count) ==
    IF items = <<>> THEN [db |-> db, saved_count |-> saved_count, raised |-> FALSE]
    ELSE IF ~is_dict(Head(items))
         THEN [db |-> db, saved_count |-> saved_count, raised |-> TRUE]
         ELSE loop_over_items(process_item(db, Head(items), t), Tail(items), t,
                              saved_count + 1)

\* Lines 36-163, once the body is parsed: payload.get("alerts", []), the
\* isinstance test, the loop and the answer.  An exception that is not an
\* HTTPException is answered 500 by the framework; every repo call before it
\* has committed.
process_payload(db, payload, t) ==
    IF ~is_dict(payload)
    THEN [status_code |-> 500, body |-> [detail |-> "Internal Server Error"], db |-> db]
    ELSE LET alerts_value == Get(payload, "alerts", JSON_LIST(<<>>))
         IN  IF ~is_list(alerts_value)
             THEN [status_code |-> 202,
                   body |-> [status |-> "ignored", reason |-> "no alerts found"],
                   db |-> db]
             ELSE LET done == loop_over_items(db, alerts_value.items, t, 0)
                  IN  IF done.raised
                      THEN [status_code |-> 500,
                            body |-> [detail |-> "Internal Server Error"],
                            db |-> done.db]
                      ELSE [status_code |-> 202,
                            body |-> [status |-> "accepted",
                                      count |-> done.saved_count,
                                      triggered |-> Len(done.db.triggered)
                                                        - Len(db.triggered)],
                            db |-> done.db]

\* receive_alert that parses and processes the body whatever the token
receive_alert_without_token_check(db, request, secret, t) ==
    IF ~request.body.valid
    THEN [status_code |-> 400, body |-> [detail |-> "Invalid JSON"], db |-> db]
    ELSE process_payload(db, request.body.json, t)

\* receive_alert: the token check (only when a secret is configured), then
\* request.json(), then the payload
receive_alert(db, request, secret, t) ==
    IF IsSome(secret) /\ request.token # secret
    THEN [status_code |-> 401, body |-> [detail |-> "Invalid alert token"], db |-> db]
    ELSE IF ~request.body.valid
    THEN [status_code |-> 400, body |-> [detail |-> "Invalid JSON"], db |-> db]
    ELSE process_payload(db, request.body.json, t)

\* The alert tables as the handler's repo sees them
AlertDb == [alerts |-> alerts, alert_states |-> alert_states, triggered |-> triggered]

\* The "alerts" list of a request, [] when there is none
request_items(request) ==
    IF request.body.valid /\ is_dict(request.body.json)
          /\ is_list(Get(request.body.json, "alerts", JSON_LIST(<<>>)))
    THEN Get(request.body.json, "alerts", JSON_LIST(<<>>)).items
    ELSE <<>>

\* One request to the endpoint, answered
WebhookRequest(request) ==
    /\ Len(alerts) + Len(request_items(request)) <= MaxWebhookAlerts
    /\ LET r == receive_alert(AlertDb, request, config.alert_webhook_secret, now)
       IN  /\ alerts' = r.db.alerts
           /\ alert_states' = r.db.alert_states
           /\ triggered' = r.db.triggered
           /\ response' = [request |-> request, status_code |-> r.status_code,
                           body |-> r.body]
           /\ runs_since_alert' = IF r.db.alerts = alerts THEN runs_since_alert ELSE 0
    /\ UNCHANGED <<now, config, batches, jobs, procVars, watchVars,
                   reconcile_outcome, probe, workerVars, incidentVars, serviceVars>>

WebhookConfigs ==
    [alert_batch_min_count : {1},
     alert_correlation_window_seconds : {TickSeconds},
     rollout_timeout_seconds : {TickSeconds},
     watch_all_namespaces : {FALSE},
     namespace_label_enabled : {TRUE},
     max_investigations_per_namespace_per_hour : {2},
     max_investigations_per_cluster_per_hour : {20},
     alert_webhook_secret : {None, Some(SECRET)}]

InitWebhook ==
    /\ config \in WebhookConfigs
    /\ InitStore

NextWebhook ==
    \/ Advance(MaxWebhookTicks)
    \/ \E request \in WebhookRequests : WebhookRequest(request)
    \/ BatcherRunOnce

SpecWebhook == InitWebhook /\ [][NextWebhook]_vars

----------------------------------------------------------------------------
(* Webhook workers and the batcher thread interleaved: every step below is  *)
(* one database transaction of the code, in the code's order.               *)

\* Lines 50-102: the item's fields, now = utcnow(), repo.get_state and the
\* decision computed from what was read
WorkerGetState(w, item) ==
    /\ workers[w].pc = "idle"
    /\ w = "w2" => workers["w1"].pc # "idle"   \* a request goes to the first free worker
    /\ Len(alerts) + Cardinality({v \in Workers : workers[v].pc = "read"}) < MaxConcAlerts
    /\ LET state == get_state(alert_states, item_fingerprint(item))
       IN  workers' = [workers EXCEPT ![w] =
                [pc |-> "read", item |-> item, now |-> now,
                 should_investigate |->
                    should_investigate(item_status(item), state, is_throttled(state, now))]]
    /\ UNCHANGED <<auxVars, now, config, alertVars, batcher, watchVars>>

\* Lines 110-118 and, when investigating, line 150: repo.create_alert commits
\* the row with batched = 0
WorkerCreateAlert(w) ==
    /\ workers[w].pc = "read"
    /\ LET me == workers[w]
           fingerprint == item_fingerprint(me.item)
           created == create_alert(alerts, fingerprint, item_status(me.item),
                                   item_labels(me.item), now)
       IN  /\ alerts' = created
           /\ triggered' =
                IF me.should_investigate
                THEN Append(triggered, [alert_id |-> Len(created),
                                        fingerprint |-> fingerprint, at |-> me.now])
                ELSE triggered
           /\ workers' = [workers EXCEPT ![w] =
                [me EXCEPT !.pc = "created"] @@ [alert_id |-> Len(created)]]
    /\ runs_since_alert' = 0
    /\ UNCHANGED <<auxVars, now, config, alert_states, batches, jobs, batcher, watchVars>>

\* Lines 120-147: the separate UPDATE that hides a skipped alert
WorkerMarkSkipped(w) ==
    /\ workers[w].pc = "created"
    /\ ~workers[w].should_investigate
    /\ alerts' = mark_skipped(alerts, workers[w].alert_id)
    /\ workers' = [workers EXCEPT ![w].pc = "marked"]
    /\ UNCHANGED <<auxVars, now, config, alert_states, batches, jobs, triggered,
                   runs_since_alert, batcher, watchVars>>

\* Lines 152-158: repo.update_state, then the next item or the response
WorkerUpdateState(w) ==
    /\ \/ workers[w].pc = "created" /\ workers[w].should_investigate
       \/ workers[w].pc = "marked"
    /\ LET me == workers[w]
       IN  alert_states' = update_state(alert_states, item_fingerprint(me.item),
                                        item_status(me.item), me.now,
                                        me.should_investigate)
    /\ workers' = [workers EXCEPT ![w] = IdleWorker]
    /\ UNCHANGED <<auxVars, now, config, alerts, batches, jobs, triggered, runs_since_alert,
                   batcher, watchVars>>

\* run_once lines 34-55: the query and the grouping of what it returned
BatcherRead ==
    /\ batcher.pc = "idle"
    /\ LET groups == read_groups(alerts, now, config.alert_correlation_window_seconds)
       IN  /\ batcher' = IF groups = <<>> THEN IdleBatcher
                         ELSE [pc |-> "batching", rows |-> alerts, groups |-> groups]
           /\ runs_since_alert' =
                IF groups # <<>> THEN runs_since_alert
                ELSE IF runs_since_alert < 2 THEN runs_since_alert + 1 ELSE 2
    /\ UNCHANGED <<auxVars, now, config, alerts, alert_states, batches, jobs, triggered,
                   workers, watchVars>>

\* run_once lines 57-76: one group, create_batch being one transaction
BatcherGroup ==
    /\ batcher.pc = "batching"
    /\ LET db == batch_group([alerts |-> alerts, batches |-> batches, jobs |-> jobs],
                             batcher.rows, Head(batcher.groups),
                             config.alert_batch_min_count)
       IN  /\ alerts' = db.alerts
           /\ batches' = db.batches
           /\ jobs' = db.jobs
    /\ IF Tail(batcher.groups) = <<>>
       THEN /\ batcher' = IdleBatcher
            /\ runs_since_alert' = IF runs_since_alert < 2 THEN runs_since_alert + 1 ELSE 2
       ELSE /\ batcher' = [batcher EXCEPT !.groups = Tail(@)]
            /\ UNCHANGED runs_since_alert
    /\ UNCHANGED <<auxVars, now, config, alert_states, triggered, workers, watchVars>>

TickConc == Advance(MaxConcTicks)

NextAlertsConc ==
    \/ TickConc
    \/ \E w \in Workers, item \in ConcItems : WorkerGetState(w, item)
    \/ \E w \in Workers : WorkerCreateAlert(w)
    \/ \E w \in Workers : WorkerMarkSkipped(w)
    \/ \E w \in Workers : WorkerUpdateState(w)
    \/ BatcherRead
    \/ BatcherGroup

\* The interleaved specification runs with the default alert_batch_min_count
InitConc == Init /\ config.alert_batch_min_count = 1

SpecAlertsConc == InitConc /\ [][NextAlertsConc]_vars

----------------------------------------------------------------------------
(* Deployment watch: service.py, and RolloutRepo: db.py *)

K8S_CLUSTER_NAME == "ci-cluster"
ENABLED_LABEL == "project-fyr/enabled"

\* Deployment status shapes: the fields evaluate_deployment_phase reads.
\* spec.replicas is optional; conditions is a list of (type, status).
DepStatuses ==
    {[replicas |-> Some(1), status |-> [available_replicas |-> 1, conditions |-> <<>>]],
     [replicas |-> Some(1), status |-> [available_replicas |-> 0, conditions |-> <<>>]],
     [replicas |-> Some(1),
      status |-> [conditions |-> <<[type |-> "Available", status |-> "False"]>>]],
     [replicas |-> Some(1),
      status |-> [available_replicas |-> 0,
                  conditions |-> <<[type |-> "Available", status |-> "False"],
                                   [type |-> "Progressing", status |-> "False"]>>]]}

Deployments ==
    {[namespace |-> "ns1", name |-> n, generation |-> g, labels |-> l,
      replicas |-> d.replicas, status |-> d.status] :
        n \in {"app"},
        g \in {None} \cup {Some(k) : k \in 0..MaxGeneration},
        l \in {<<>>, (ENABLED_LABEL :> "true")},
        d \in DepStatuses}

EventTypes == {"ADDED", "MODIFIED", "DELETED"}

\* What NamespaceMetadataCache.get returns: parse_namespace_annotations' dict
NamespaceMetadatas ==
    {<<>>,
     [team |-> "team-b", slack_channel |-> "#b", metadata_json |-> "annotations"]}

\* `x or y` over optional integers: None and 0 are falsy
OrInt(x, y) == IF IsSome(x) /\ The(x) # 0 THEN x ELSE y

\* getattr(obj, name, None)
GetAttr(obj, name) == IF name \in DOMAIN obj THEN Some(obj[name]) ELSE None

\* {c.type: c.status for c in conditions}: a later entry replaces an earlier one
RECURSIVE conditions_dict(_, _)
conditions_dict(conditions, n) ==
    IF n = 0 THEN <<>>
    ELSE LET before == conditions_dict(conditions, n - 1)
             c == conditions[n]
         IN  [type \in DOMAIN before \cup {c.type} |->
                IF type = c.type THEN c.status ELSE before[type]]

\* evaluate_deployment_phase that tests the Available condition first
evaluate_deployment_phase_available_first(dep) ==
    LET available == OrInt(GetAttr(dep.status, "available_replicas"),
                           GetAttr(dep.status, "availableReplicas"))
        desired == The(OrInt(dep.replicas, Some(0)))
        listed == Get(dep.status, "conditions", <<>>)
        conditions == conditions_dict(listed, Len(listed))
    IN  IF IsSome(available) /\ desired > 0 /\ The(available) >= desired THEN "STABLE"
        ELSE IF Get(conditions, "Available", "") = "False" THEN "PENDING"
        ELSE IF Get(conditions, "Progressing", "") = "False" THEN "FAILED_PROGRESS"
        ELSE "ROLLING_OUT"

evaluate_deployment_phase(dep) ==
    LET available == OrInt(GetAttr(dep.status, "available_replicas"),
                           GetAttr(dep.status, "availableReplicas"))
        desired == The(OrInt(dep.replicas, Some(0)))
        listed == Get(dep.status, "conditions", <<>>)
        conditions == conditions_dict(listed, Len(listed))
    IN  IF IsSome(available) /\ desired > 0 /\ The(available) >= desired THEN "STABLE"
        ELSE IF Get(conditions, "Progressing", "") = "False" THEN "FAILED_PROGRESS"
        ELSE IF Get(conditions, "Available", "") = "False" THEN "PENDING"
        ELSE "ROLLING_OUT"

\* Index of the first row at or after i that has the identity, 0 if none
RECURSIVE first_by_key(_, _, _, _, _, _)
first_by_key(rows, cluster, namespace, deployment, generation, i) ==
    IF i > Len(rows) THEN 0
    ELSE IF /\ rows[i].cluster = cluster
            /\ rows[i].namespace = namespace
            /\ rows[i].deployment = deployment
            /\ rows[i].generation = generation
         THEN i
         ELSE first_by_key(rows, cluster, namespace, deployment, generation, i + 1)

\* get_by_key called with deployment and namespace swapped
get_by_key_swapped(rows, cluster, namespace, deployment, generation) ==
    LET i == first_by_key(rows, cluster, deployment, namespace, generation, 1)
    IN  IF i = 0 THEN None ELSE Some(i)

\* RolloutRepo.get_by_key: the id of the first row with the identity, or None
get_by_key(rows, cluster, namespace, deployment, generation) ==
    LET i == first_by_key(rows, cluster, namespace, deployment, generation, 1)
    IN  IF i = 0 THEN None ELSE Some(i)

\* RolloutRepo.create with the column defaults of class Rollout
rollout_create(rows, cluster, namespace, deployment, generation, status, started_at, metadata_json, team, slack_channel) ==
    Append(rows,
           [cluster |-> cluster, namespace |-> namespace, deployment |-> deployment,
            generation |-> generation, status |-> status, started_at |-> Some(started_at),
            completed_at |-> None, failed_at |-> None, origin |-> "k8s",
            metadata_json |-> metadata_json, team |-> team,
            slack_channel |-> slack_channel, analysis_id |-> None,
            analysis_status |-> "PENDING", notify_status |-> "PENDING"])

\* update_metadata that also writes the status column
update_metadata_resets_status(rows, rollout_id, metadata_json, team, slack_channel) ==
    [rows EXCEPT
        ![rollout_id] =
            [@ EXCEPT
                !.status = "ROLLING_OUT",
                !.metadata_json = IF IsSome(metadata_json) THEN The(metadata_json) ELSE @,
                !.team = IF IsSome(team) THEN team ELSE @,
                !.slack_channel = IF IsSome(slack_channel) THEN slack_channel ELSE @]]

\* RolloutRepo.update_metadata: only the values that are not None are written
update_metadata(rows, rollout_id, metadata_json, team, slack_channel) ==
    [rows EXCEPT
        ![rollout_id] =
            [@ EXCEPT
                !.metadata_json = IF IsSome(metadata_json) THEN The(metadata_json) ELSE @,
                !.team = IF IsSome(team) THEN team ELSE @,
                !.slack_channel = IF IsSome(slack_channel) THEN slack_channel ELSE @]]

\* generation = dep.metadata.generation or 1
dep_generation(dep) == The(OrInt(dep.generation, Some(1)))

\* handle_deployment_event that does not ask for the project-fyr/enabled label
handle_deployment_event_without_opt_in(rows, dep, event_type, cluster, namespace_metadata, t) ==
    IF event_type = "DELETED" THEN rows
    ELSE
        LET generation == dep_generation(dep)
            rollout == get_by_key(rows, cluster, dep.namespace, dep.name, generation)
            phase == evaluate_deployment_phase(dep)
        IN  IF ~IsSome(rollout)
            THEN rollout_create(rows, cluster, dep.namespace, dep.name, generation,
                                IF phase = "PENDING" THEN "PENDING" ELSE "ROLLING_OUT",
                                t,
                                Get(namespace_metadata, "metadata_json", "{}"),
                                GetAttr(namespace_metadata, "team"),
                                GetAttr(namespace_metadata, "slack_channel"))
            ELSE IF namespace_metadata # <<>>
                 THEN update_metadata(rows, The(rollout),
                                      GetAttr(namespace_metadata, "metadata_json"),
                                      GetAttr(namespace_metadata, "team"),
                                      GetAttr(namespace_metadata, "slack_channel"))
                 ELSE rows

\* A new rollout starts as ROLLING_OUT whatever the phase
initial_status_always_rolling_out(phase) == "ROLLING_OUT"

\* RolloutStatus.PENDING if phase == "PENDING" else RolloutStatus.ROLLING_OUT
initial_status(phase) == IF phase = "PENDING" THEN "PENDING" ELSE "ROLLING_OUT"

\* handle_deployment_event: the rollouts table after the event
handle_deployment_event(rows, dep, event_type, cluster, namespace_metadata, t) ==
    IF event_type = "DELETED" THEN rows
    ELSE IF Get(dep.labels, ENABLED_LABEL, "") # "true" THEN rows
    ELSE
        LET generation == dep_generation(dep)
            rollout == get_by_key(rows, cluster, dep.namespace, dep.name, generation)
            phase == evaluate_deployment_phase(dep)
        IN  IF ~IsSome(rollout)
            THEN rollout_create(rows, cluster, dep.namespace, dep.name, generation,
                                initial_status(phase),
                                t,
                                Get(namespace_metadata, "metadata_json", "{}"),
                                GetAttr(namespace_metadata, "team"),
                                GetAttr(namespace_metadata, "slack_channel"))
            ELSE IF namespace_metadata # <<>>
                 THEN update_metadata(rows, The(rollout),
                                      GetAttr(namespace_metadata, "metadata_json"),
                                      GetAttr(namespace_metadata, "team"),
                                      GetAttr(namespace_metadata, "slack_channel"))
                 ELSE rows

\* One event of the watch stream, handled by _watch_loop
HandleDeploymentEvent(dep, event_type, namespace_metadata) ==
    /\ LET after == handle_deployment_event(rollouts, dep, event_type, K8S_CLUSTER_NAME,
                                            namespace_metadata, now)
       IN  /\ Len(after) <= MaxRollouts
           /\ rollouts' = after
           /\ replayed' =
                (replayed \/ (/\ event_type # "DELETED"
                              /\ Get(dep.labels, ENABLED_LABEL, "") = "true"
                              /\ Len(after) = Len(rollouts)))
    /\ UNCHANGED <<auxVars, now, config, alertVars, procVars>>

\* handle_deployment_event: the methods of RolloutRepo it calls, in order
handle_deployment_event_calls(rows, dep, event_type, cluster, namespace_metadata) ==
    IF event_type = "DELETED" THEN <<>>
    ELSE IF Get(dep.labels, ENABLED_LABEL, "") # "true" THEN <<>>
    ELSE IF ~IsSome(get_by_key(rows, cluster, dep.namespace, dep.name, dep_generation(dep)))
         THEN <<"get_by_key", "create">>
         ELSE IF namespace_metadata # <<>>
              THEN <<"get_by_key", "update_metadata">>
              ELSE <<"get_by_key">>

\* The deployments handle_deployment_event is called with directly: with and
\* without the project-fyr/enabled label
EventDeployments ==
    {[namespace |-> "ns1", name |-> "app", generation |-> Some(g), labels |-> l,
      replicas |-> Some(1), status |-> [available_replicas |-> 0, conditions |-> <<>>]] :
        g \in 1..MaxGeneration,
        l \in {<<>>, (ENABLED_LABEL :> "true"), (ENABLED_LABEL :> "false")}}

\* The metadata_json of a namespace that carries project-fyr/enabled=true
NAMESPACE_ENABLED == "{project-fyr/enabled: true}"

\* The namespace metadata it is called with: None, without and with the
\* project-fyr/enabled annotation
EventNamespaceMetadatas ==
    {<<>>, [metadata_json |-> "{}"], [metadata_json |-> NAMESPACE_ENABLED]}

\* A direct call of handle_deployment_event, observed: what was stored for the
\* identity before, whether the table changed and the repo methods called
CallHandleDeploymentEvent(dep, event_type, namespace_metadata) ==
    /\ LET after == handle_deployment_event(rollouts, dep, event_type, K8S_CLUSTER_NAME,
                                            namespace_metadata, now)
       IN  /\ Len(after) <= MaxRollouts
           /\ rollouts' = after
           /\ replayed' =
                (replayed \/ (/\ event_type # "DELETED"
                              /\ Get(dep.labels, ENABLED_LABEL, "") = "true"
                              /\ Len(after) = Len(rollouts)))
           /\ probe' =
                [function |-> "handle_deployment_event",
                 argument |-> [dep |-> dep, event_type |-> event_type,
                               namespace_metadata |-> namespace_metadata],
                 result |-> [stored |-> IsSome(get_by_key(rollouts, K8S_CLUSTER_NAME,
                                                          dep.namespace, dep.name,
                                                          dep_generation(dep))),
                             changed |-> after # rollouts,
                             created |-> Len(after) > Len(rollouts),
                             calls |-> handle_deployment_event_calls(
                                            rollouts, dep, event_type, K8S_CLUSTER_NAME,
                                            namespace_metadata)]]
    /\ UNCHANGED <<now, config, alertVars, procVars, reconcile_outcome, workerVars, response, incidentVars, serviceVars>>

\* The settings of the watch behaviour
EventConfigs ==
    {[c EXCEPT !.watch_all_namespaces = w, !.namespace_label_enabled = n] :
        c \in {x \in Configs : x.alert_batch_min_count = 1}, w \in BOOLEAN, n \in BOOLEAN}

InitEvents ==
    /\ config \in EventConfigs
    /\ InitStore

NextEvents ==
    \E dep \in EventDeployments, event_type \in EventTypes,
       namespace_metadata \in EventNamespaceMetadatas :
        CallHandleDeploymentEvent(dep, event_type, namespace_metadata)

SpecEvents == InitEvents /\ [][NextEvents]_vars

----------------------------------------------------------------------------
(* Reconciliation: service.py, reconcile_rollout and _reconcile_loop *)

\* A pod as analyze_pod_failures reads it: its phase and, per container
\* status, the waiting reason (None when the container is not waiting)
POD_RUNNING == [phase |-> "Running", container_statuses |-> <<None>>]
POD_CRASHLOOP == [phase |-> "Running", container_statuses |-> <<Some("CrashLoopBackOff")>>]
POD_IMAGE_PULL == [phase |-> "Pending", container_statuses |-> <<Some("ErrImagePull")>>]

\* What list_deployment_pods returns
PodLists ==
    {<<>>,
     <<POD_RUNNING>>,
     <<POD_CRASHLOOP>>,
     <<POD_RUNNING, POD_RUNNING, POD_RUNNING, POD_RUNNING, POD_CRASHLOOP>>,
     <<POD_RUNNING, POD_RUNNING, POD_CRASHLOOP, POD_CRASHLOOP, POD_IMAGE_PULL>>}

\* A pod of two containers (application and sidecar), both waiting
POD_TWO_CRASHLOOPS == [phase |-> "Running", container_statuses |-> <<Some("CrashLoopBackOff"), Some("CrashLoopBackOff")>>]
POD_TWO_IMAGE_PULLS == [phase |-> "Pending", container_statuses |-> <<Some("ImagePullBackOff"), Some("ErrImagePull")>>]

\* Pod lists with pods of more than one container
SidecarPodLists ==
    {<<POD_TWO_CRASHLOOPS>>,
     <<POD_RUNNING, POD_TWO_IMAGE_PULLS>>,
     <<POD_RUNNING, POD_TWO_CRASHLOOPS, POD_IMAGE_PULL>>}

\* str.upper() on the pod phases
Upper(phase) ==
    CASE phase = "Pending" -> "PENDING"
      [] phase = "Running" -> "RUNNING"
      [] OTHER -> phase

\* The number of container statuses of the pod waiting with one of the reasons
RECURSIVE count_waiting(_, _, _)
count_waiting(container_statuses, reasons, i) ==
    IF i > Len(container_statuses) THEN 0
    ELSE (IF /\ IsSome(container_statuses[i])
             /\ The(container_statuses[i]) \in reasons
          THEN 1 ELSE 0)
         + count_waiting(container_statuses, reasons, i + 1)

RECURSIVE analyze_pod_failures_from(_, _)
analyze_pod_failures_from(pods, i) ==
    IF i > Len(pods)
    THEN [crashloop_pods |-> 0, image_pull_pods |-> 0,
          pending_scheduling_pods |-> 0, total_pods |-> Len(pods)]
    ELSE LET rest == analyze_pod_failures_from(pods, i + 1)
             pod == pods[i]
         IN  [crashloop_pods |->
                 rest.crashloop_pods
                 + count_waiting(pod.container_statuses, {"CrashLoopBackOff"}, 1),
              image_pull_pods |->
                 rest.image_pull_pods
                 + count_waiting(pod.container_statuses,
                                 {"ImagePullBackOff", "ErrImagePull"}, 1),
              pending_scheduling_pods |->
                 rest.pending_scheduling_pods
                 + (IF Upper(pod.phase) = "PENDING" THEN 1 ELSE 0),
              total_pods |-> rest.total_pods]

analyze_pod_failures(pods) == analyze_pod_failures_from(pods, 1)

Max(a, b) == IF a >= b THEN a ELSE b

\* should_fail_early with half the pods rounded up
should_fail_early_half_up(signals, min_pods) ==
    IF signals.total_pods < min_pods THEN FALSE
    ELSE signals.crashloop_pods + signals.image_pull_pods
            >= Max(1, (signals.total_pods + 1) \div 2)

should_fail_early(signals, min_pods) ==
    IF signals.total_pods < min_pods THEN FALSE
    ELSE signals.crashloop_pods + signals.image_pull_pods
            >= Max(1, signals.total_pods \div 2)

\* RolloutRepo.update_status: status and the timestamps passed as keywords
update_status(rows, rollout_id, new_status, timestamps) ==
    [rows EXCEPT
        ![rollout_id] =
            [f \in DOMAIN @ |->
                IF f = "status" THEN new_status
                ELSE IF f \in DOMAIN timestamps THEN Some(timestamps[f])
                ELSE @[f]]]

\* list_active without the filter on status
list_active_any_status(rows, cluster) == {i \in DOMAIN rows : rows[i].cluster = cluster}

\* RolloutRepo.list_active: the ids of the rows of the cluster that are
\* PENDING or ROLLING_OUT
list_active(rows, cluster) ==
    {i \in DOMAIN rows :
        /\ rows[i].cluster = cluster
        /\ rows[i].status \in {"PENDING", "ROLLING_OUT"}}


\* reconcile_rollout whose timeout test is age >= timeout
reconcile_call_timeout_inclusive(dep, rollout, t, timeout, pods) ==
    LET phase == evaluate_deployment_phase(dep)
        started_at == IF IsSome(rollout.started_at) THEN The(rollout.started_at) ELSE t
        age == t - started_at
        new_status == IF phase = "PENDING" THEN "PENDING" ELSE "ROLLING_OUT"
    IN  IF IsSome(pods) /\ should_fail_early(analyze_pod_failures(The(pods)), 1)
        THEN Some([status |-> "FAILED", timestamps |-> [failed_at |-> t]])
        ELSE IF phase = "STABLE"
        THEN Some([status |-> "SUCCESS", timestamps |-> [completed_at |-> t]])
        ELSE IF phase = "FAILED_PROGRESS"
        THEN Some([status |-> "FAILED", timestamps |-> [failed_at |-> t]])
        ELSE IF age >= timeout
        THEN Some([status |-> "FAILED", timestamps |-> [failed_at |-> t]])
        ELSE IF rollout.status # new_status
        THEN Some([status |-> new_status, timestamps |-> <<>>])
        ELSE None

\* reconcile_rollout that looks at the phase before the pods
reconcile_call_phase_first(dep, rollout, t, timeout, pods) ==
    LET phase == evaluate_deployment_phase(dep)
        started_at == IF IsSome(rollout.started_at) THEN The(rollout.started_at) ELSE t
        age == t - started_at
        new_status == IF phase = "PENDING" THEN "PENDING" ELSE "ROLLING_OUT"
    IN  IF phase = "STABLE"
        THEN Some([status |-> "SUCCESS", timestamps |-> [completed_at |-> t]])
        ELSE IF IsSome(pods) /\ should_fail_early(analyze_pod_failures(The(pods)), 1)
        THEN Some([status |-> "FAILED", timestamps |-> [failed_at |-> t]])
        ELSE IF phase = "FAILED_PROGRESS"
        THEN Some([status |-> "FAILED", timestamps |-> [failed_at |-> t]])
        ELSE IF age > timeout
        THEN Some([status |-> "FAILED", timestamps |-> [failed_at |-> t]])
        ELSE IF rollout.status # new_status
        THEN Some([status |-> new_status, timestamps |-> <<>>])
        ELSE None

\* reconcile_rollout: the update_status call it makes, None when it makes none.
\* pods is None when listing or analysing the pods raised.
reconcile_call(dep, rollout, t, timeout, pods) ==
    LET phase == evaluate_deployment_phase(dep)
        started_at == IF IsSome(rollout.started_at) THEN The(rollout.started_at) ELSE t
        age == t - started_at
        new_status == IF phase = "PENDING" THEN "PENDING" ELSE "ROLLING_OUT"
    IN  IF IsSome(pods) /\ should_fail_early(analyze_pod_failures(The(pods)), 1)
        THEN Some([status |-> "FAILED", timestamps |-> [failed_at |-> t]])
        ELSE IF phase = "STABLE"
        THEN Some([status |-> "SUCCESS", timestamps |-> [completed_at |-> t]])
        ELSE IF phase = "FAILED_PROGRESS"
        THEN Some([status |-> "FAILED", timestamps |-> [failed_at |-> t]])
        ELSE IF age > timeout
        THEN Some([status |-> "FAILED", timestamps |-> [failed_at |-> t]])
        ELSE IF rollout.status # new_status
        THEN Some([status |-> new_status, timestamps |-> <<>>])
        ELSE None

\* reconcile_rollout: the rollouts table after the call
reconcile_rollout(rows, dep, rollout_id, t, timeout, pods) ==
    LET call == reconcile_call(dep, rows[rollout_id], t, timeout, pods)
    IN  IF IsSome(call)
        THEN update_status(rows, rollout_id, The(call).status, The(call).timestamps)
        ELSE rows

\* What read_namespaced_deployment gives: None when it raises
DepReads == {None} \cup {Some(d) : d \in DepStatuses}

\* What listing and analysing the pods gives: None when it raises
PodReads == {None} \cup {Some(pods) : pods \in PodLists}

\* _reconcile_loop that marks a rollout FAILED when its deployment cannot be read
ReconcileRolloutFailsUnreadable(rollout_id, dep_read, pods) ==
    /\ rollout_id \in list_active(rollouts, K8S_CLUSTER_NAME)
    /\ IF IsSome(dep_read)
       THEN /\ rollouts' = reconcile_rollout(rollouts, The(dep_read), rollout_id, now,
                                             config.rollout_timeout_seconds, pods)
            /\ reconcile_outcome' =
                    IF IsSome(reconcile_call(The(dep_read), rollouts[rollout_id], now,
                                             config.rollout_timeout_seconds, pods))
                    THEN "written" ELSE "skipped"
       ELSE /\ rollouts' = update_status(rollouts, rollout_id, "FAILED", [failed_at |-> now])
            /\ reconcile_outcome' = "unreadable"
    /\ UNCHANGED <<now, config, alertVars, procVars, replayed, probe, workerVars, response, incidentVars, serviceVars>>

\* One iteration of _reconcile_loop over the rollouts of list_active
ReconcileRollout(rollout_id, dep_read, pods) ==
    /\ rollout_id \in list_active(rollouts, K8S_CLUSTER_NAME)
    /\ IF IsSome(dep_read)
       THEN /\ rollouts' = reconcile_rollout(rollouts, The(dep_read), rollout_id, now,
                                             config.rollout_timeout_seconds, pods)
            /\ reconcile_outcome' =
                    IF IsSome(reconcile_call(The(dep_read), rollouts[rollout_id], now,
                                             config.rollout_timeout_seconds, pods))
                    THEN "written" ELSE "skipped"
       ELSE /\ rollouts' = rollouts
            /\ reconcile_outcome' = "unreadable"
    /\ UNCHANGED <<now, config, alertVars, procVars, replayed, probe, workerVars, response, incidentVars, serviceVars>>

NextWatch ==
    \/ Tick
    \/ \E dep \in Deployments, event_type \in EventTypes,
          namespace_metadata \in NamespaceMetadatas :
            HandleDeploymentEvent(dep, event_type, namespace_metadata)

InitWatch == Init /\ config.alert_batch_min_count = 1

SpecWatch == InitWatch /\ [][NextWatch]_vars

\* The deployments of the watch stream (label selector project-fyr/enabled=true)
\* while the reconcile loop runs: two generations of one deployment
WatchedDeployments ==
    {[namespace |-> "ns1", name |-> "app", generation |-> g,
      labels |-> (ENABLED_LABEL :> "true"),
      replicas |-> d.replicas, status |-> d.status] :
        g \in {None, Some(2)}, d \in DepStatuses}

\* The watch thread and the reconcile thread of WatcherService
NextReconcile ==
    \/ Tick
    \/ \E dep \in WatchedDeployments, event_type \in EventTypes,
          namespace_metadata \in NamespaceMetadatas :
            HandleDeploymentEvent(dep, event_type, namespace_metadata)
    \/ \E rollout_id \in 1..MaxRollouts, dep_read \in DepReads, pods \in PodReads :
            ReconcileRollout(rollout_id, dep_read, pods)

SpecReconcile == InitWatch /\ [][NextReconcile]_vars

----------------------------------------------------------------------------
(* _reconcile_loop pass after pass, against a cluster in which the          *)
(* deployment may be deleted: service.py 291-304                            *)

\* kubectl delete deployment: from now on read_namespaced_deployment raises
\* ApiException 404.  The DELETED event of the watch stream writes nothing
\* (handle_deployment_event returns at once).
DeploymentDeleted ==
    /\ deployed
    /\ rollouts # <<>>
    /\ deployed' = FALSE
    /\ UNCHANGED <<now, config, alertVars, procVars, watchVars, reconcile_outcome,
                   probe, workerVars, response, incidentVars, watcher, cacheVars,
                   analyzer>>

\* The watch stream reports the deployment while it exists; rollouts start
\* before the clock's first tick so that every timeout falls inside the run
DeploymentObserved(dep, event_type) ==
    /\ deployed
    /\ now = 0
    /\ HandleDeploymentEvent(dep, event_type, <<>>)

\* The iteration of the loop for one active rollout: the read answers
\* with the deployment as long as it exists and raises once it is deleted
ReconcilePass(rollout_id, dep, pods) ==
    ReconcileRollout(rollout_id, IF deployed THEN Some(dep) ELSE None, pods)

NextReconcileLoop ==
    \/ Tick
    \/ DeploymentDeleted
    \/ \E dep \in WatchedDeployments, event_type \in EventTypes :
            DeploymentObserved(dep, event_type)
    \/ \E rollout_id \in 1..MaxRollouts, dep \in DepStatuses, pods \in PodReads :
            ReconcilePass(rollout_id, dep, pods)

\* while True ... time.sleep(10): every active rollout is visited again and
\* again, and time passes
SpecReconcileLoop ==
    /\ InitWatch
    /\ [][NextReconcileLoop]_vars
    /\ WF_vars(Tick)
    /\ \A rollout_id \in 1..MaxRollouts :
          WF_vars(\E dep \in DepStatuses, pods \in PodReads :
                      ReconcilePass(rollout_id, dep, pods))

----------------------------------------------------------------------------
(* The analysis worker: service.py, AnalysisWorker, with agent.py, slack.py *)
(* and RolloutRepo.  The loop of the second AnalysisWorker (lines 582-641)  *)
(* has the body of _process_rollouts and _investigate_rollout of the first. *)

\* RolloutRepo.list_failed: the ids of the rows of the cluster that are FAILED
\* and whose analysis_status is not DONE
list_failed(rows, cluster) ==
    {i \in DOMAIN rows :
        /\ rows[i].cluster = cluster
        /\ rows[i].status = "FAILED"
        /\ rows[i].analysis_status # "DONE"}

\* What the LLM agent behind InvestigatorAgent does when invoked
Backends == {"answers", "raises"}

\* InvestigatorAgent.investigate with an enabled agent: the Analysis returned.
\* An exception of the agent call is caught and an Analysis is built from it.
investigate(deployment, backend) ==
    IF backend = "answers"
    THEN [summary |-> "Agent Investigation for", deployment |-> deployment,
          likely_cause |-> "output_text", severity |-> "medium"]
    ELSE [summary |-> "Agent failed to investigate", deployment |-> deployment,
          likely_cause |-> "Internal error", severity |-> "high"]

\* RolloutRepo.update_notify_status
update_notify_status(rows, rollout_id, new_status) ==
    [rows EXCEPT ![rollout_id].notify_status = new_status]

\* RolloutRepo.append_analysis: the record and the update of the rollout,
\* committed together.  db = [rollouts, analyses]
append_analysis(db, rollout_id, analysis, created_at) ==
    LET record_id == Len(db.analyses) + 1
    IN  [analyses |-> Append(db.analyses, [rollout_id |-> rollout_id, analysis |-> analysis]),
         rollouts |->
            [db.rollouts EXCEPT
                ![rollout_id] =
                    [@ EXCEPT !.analysis_id = Some(record_id),
                              !.analysis_status = "DONE",
                              !.completed_at = Some(created_at)]]]

\* The calls of _investigate_rollout after the agent's, in order; the fault
\* of an iteration is the call that raises, "none" when none does
ROLLOUT_STEPS ==
    <<"triage_failure", "send_analysis", "update_notify_status", "append_analysis">>

Faults == {"none"} \cup {ROLLOUT_STEPS[i] : i \in DOMAIN ROLLOUT_STEPS}

\* The call is reached and returns: no earlier call and not this one raises
Returns(step, fault) ==
    \/ fault = "none"
    \/ \E i, j \in DOMAIN ROLLOUT_STEPS :
        /\ ROLLOUT_STEPS[i] = step
        /\ ROLLOUT_STEPS[j] = fault
        /\ i < j

\* _investigate_rollout inside the try of the loop: the store and the logs
\* after one iteration.  db = [rollouts, analyses, agent_log, slack_log];
\* sent is what send_analysis returns when it returns.
investigate_rollout(db, rollout_id, backend, sent, fault, t) ==
    LET rollout == db.rollouts[rollout_id]
        analysis == investigate(rollout.deployment, backend)
        called == db.agent_log (+) SetToBag({[type |-> "rollout", id |-> rollout_id,
                                              backend |-> backend, at |-> t]})
        delivered == IF Returns("send_analysis", fault) /\ sent
                     THEN db.slack_log (+) SetToBag({[type |-> "rollout", id |-> rollout_id,
                                                      analysis |-> analysis]})
                     ELSE db.slack_log
        notified == IF Returns("update_notify_status", fault)
                    THEN update_notify_status(db.rollouts, rollout_id,
                                              IF sent THEN "SENT" ELSE "FAILED")
                    ELSE db.rollouts
        stored == IF Returns("append_analysis", fault)
                  THEN append_analysis([rollouts |-> notified, analyses |-> db.analyses],
                                       rollout_id, analysis, t)
                  ELSE [rollouts |-> notified, analyses |-> db.analyses]
    IN  [rollouts |-> stored.rollouts, analyses |-> stored.analyses,
         agent_log |-> called, slack_log |-> delivered]

\* One iteration of the worker's loop over list_failed
InvestigateRollout(rollout_id, backend, sent, fault) ==
    /\ rollout_id \in list_failed(rollouts, K8S_CLUSTER_NAME)
    /\ BagCardinality(agent_log) < MaxInvestigations
    /\ LET db == investigate_rollout([rollouts |-> rollouts, analyses |-> analyses,
                                      agent_log |-> agent_log, slack_log |-> slack_log],
                                     rollout_id, backend, sent, fault, now)
       IN  /\ rollouts' = db.rollouts
           /\ analyses' = db.analyses
           /\ agent_log' = db.agent_log
           /\ slack_log' = db.slack_log
    /\ UNCHANGED <<now, config, alertVars, procVars, replayed, reconcile_outcome, probe, response, incidentVars, serviceVars>>

\* AlertRepo.get_pending_jobs selecting without the status
get_pending_jobs_any_status(rows) == DOMAIN rows

\* AlertRepo.get_pending_jobs: the ids of the jobs whose status is pending
get_pending_jobs(rows) == {i \in DOMAIN rows : rows[i].status = "pending"}

\* AlertRepo.update_job_status: status and the timestamps passed as keywords
update_job_status(rows, job_id, status, timestamps) ==
    [rows EXCEPT
        ![job_id] =
            [f \in DOMAIN @ |->
                IF f = "status" THEN status
                ELSE IF f \in DOMAIN timestamps THEN Some(timestamps[f])
                ELSE @[f]]]

\* AlertRepo.get_batch: the id of the batch, None when there is no such row
get_batch(rows, batch_id) ==
    IF IsSome(batch_id) /\ The(batch_id) \in DOMAIN rows THEN batch_id ELSE None

\* The call of _investigate_alert_batch that raises: reading the batch (before
\* the agent is called), send_analysis, or the last update_job_status
JobFaults == {"none", "get_batch", "send_analysis", "update_job_status"}

\* One iteration of _process_alert_jobs (first definition of AnalysisWorker,
\* lines 168-231): _investigate_alert_batch and the except branch that marks
\* the job failed.  db = [jobs, batches, agent_log, slack_log]
process_alert_job(db, job_id, backend, sent, fault, t) ==
    LET running == update_job_status(db.jobs, job_id, "running", [started_at |-> t])
        failed == update_job_status(running, job_id, "failed", <<>>)
        batch == get_batch(db.batches, db.jobs[job_id].alert_batch_id)
        deployment == IF IsSome(batch) /\ db.batches[The(batch)].service # <<>>
                      THEN db.batches[The(batch)].service ELSE UNKNOWN_SERVICE
        analysis == investigate(deployment, backend)
        called == db.agent_log (+) SetToBag({[type |-> "alert", id |-> job_id,
                                              backend |-> backend, at |-> t]})
        delivered == db.slack_log (+) SetToBag({[type |-> "alert", id |-> job_id,
                                                 analysis |-> analysis]})
    IN  IF fault = "get_batch" \/ ~IsSome(batch)
        THEN [jobs |-> failed, agent_log |-> db.agent_log, slack_log |-> db.slack_log]
        ELSE IF fault = "send_analysis"
        THEN [jobs |-> failed, agent_log |-> called, slack_log |-> db.slack_log]
        ELSE [jobs |-> IF fault = "update_job_status" THEN failed
                       ELSE update_job_status(running, job_id, "done", [completed_at |-> t]),
              agent_log |-> called,
              slack_log |-> IF sent THEN delivered ELSE db.slack_log]

\* One iteration of the worker's loop over get_pending_jobs
ProcessAlertJob(job_id, backend, sent, fault) ==
    /\ job_id \in get_pending_jobs(jobs)
    /\ BagCardinality(agent_log) < MaxInvestigations
    /\ LET db == process_alert_job([jobs |-> jobs, batches |-> batches,
                                    agent_log |-> agent_log, slack_log |-> slack_log],
                                   job_id, backend, sent, fault, now)
       IN  /\ jobs' = db.jobs
           /\ agent_log' = db.agent_log
           /\ slack_log' = db.slack_log
    /\ UNCHANGED <<now, config, alerts, alert_states, batches, triggered,
                   runs_since_alert, procVars, watchVars, reconcile_outcome, probe,
                   analyses, response, incidentVars, serviceVars>>

\* The alert the webhook receives while the analysis worker runs
WorkerItem == [fingerprint |-> "fp1", status |-> STATUS_FIRING, labels |-> LabelsApp]

\* One firing alert is delivered to the webhook
AlertDelivered ==
    /\ alerts = <<>>
    /\ ReceiveAlert(<<WorkerItem>>)

\* The deployment of the watch stream while the analysis worker runs, at each
\* of its generations; it is never available
WorkerDeployments ==
    {[namespace |-> "ns1", name |-> "app", generation |-> Some(g),
      labels |-> (ENABLED_LABEL :> "true"),
      replicas |-> Some(1), status |-> [available_replicas |-> 0, conditions |-> <<>>]] :
        g \in 1..MaxRollouts}

\* The watch stream delivers the deployment at its current or at its next
\* generation: metadata.generation grows by one with every change of the spec
DeploymentChanged ==
    \E dep \in WorkerDeployments :
        /\ The(dep.generation) \in {Len(rollouts), Len(rollouts) + 1}
        /\ HandleDeploymentEvent(dep, "MODIFIED", <<>>)

\* What the reconcile loop reads while the analysis worker runs: a
\* deployment that has stopped progressing
WorkerDepReads ==
    {Some(d) : d \in {x \in DepStatuses : evaluate_deployment_phase(x) = "FAILED_PROGRESS"}}

\* The watcher service and the analyzer service over one store
NextWorker ==
    \/ DeploymentChanged
    \/ AlertDelivered
    \/ BatcherRunOnce
    \/ \E job_id \in 1..MaxAlerts, backend \in Backends, sent \in BOOLEAN,
          fault \in JobFaults :
            ProcessAlertJob(job_id, backend, sent, fault)
    \/ \E rollout_id \in 1..MaxRollouts, dep_read \in WorkerDepReads :
            ReconcileRollout(rollout_id, dep_read, None)
    \/ \E rollout_id \in 1..MaxRollouts, backend \in Backends, sent \in BOOLEAN,
          fault \in Faults :
            InvestigateRollout(rollout_id, backend, sent, fault)

SpecWorker == InitWatch /\ [][NextWorker]_vars

----------------------------------------------------------------------------
(* _process_alert_jobs call by call: the first definition of AnalysisWorker, *)
(* service.py 99-107 and 168-231.  Every call of the repo is a transaction   *)
(* of its own, so the table is visible between any two of them.             *)

\* The alerts delivered while the worker's job loop runs: two services of one
\* namespace, hence two batches and two jobs
JobItems ==
    {[fingerprint |-> "fp1", status |-> STATUS_FIRING, labels |-> LabelsApp],
     [fingerprint |-> "fp2", status |-> STATUS_FIRING,
      labels |-> [LabelsApp EXCEPT !.alertname = "fp2", !.app = <<"x">>]]}

\* The worker goes on to the next job of the list it read, and sleeps when
\* the list is exhausted
next_job(todo, job_id) ==
    [pc |-> IF todo \ {job_id} = {} THEN "sleeping" ELSE "dispatching",
     todo |-> todo \ {job_id}]

\* jobs = self._alert_repo.get_pending_jobs(): the rows are read once, the
\* loop then works on that list
AnalyzerPoll ==
    /\ analyzer.pc = "sleeping"
    /\ get_pending_jobs(jobs) # {}
    /\ analyzer' = [pc |-> "dispatching", todo |-> get_pending_jobs(jobs)]
    /\ UNCHANGED <<now, config, alertVars, procVars, watchVars, reconcile_outcome,
                   probe, workerVars, response, incidentVars, watcher, cacheVars, deployed>>

\* The first call of _investigate_alert_batch: update_job_status(job.id,
\* "running", started_at=...).  When it raises, the except branch is next.
JobMarkRunning(job_id, raises) ==
    /\ analyzer.pc = "dispatching"
    /\ job_id \in analyzer.todo
    /\ jobs' = IF raises THEN jobs
               ELSE update_job_status(jobs, job_id, "running", [started_at |-> now])
    /\ analyzer' = [pc |-> IF raises THEN "except" ELSE "investigating",
                    todo |-> analyzer.todo, job |-> job_id]
    /\ UNCHANGED <<now, config, alerts, alert_states, batches, triggered,
                   runs_since_alert, procVars, watchVars, reconcile_outcome, probe,
                   workerVars, response, incidentVars, watcher, cacheVars, deployed>>

\* The rest of _investigate_alert_batch: get_batch, the agent, send_analysis
\* and the last update_job_status; the fault is the call that raises
JobInvestigate(backend, sent, fault) ==
    /\ analyzer.pc = "investigating"
    /\ LET job_id == analyzer.job
           batch == get_batch(batches, jobs[job_id].alert_batch_id)
           deployment == IF IsSome(batch) /\ batches[The(batch)].service # <<>>
                         THEN batches[The(batch)].service ELSE UNKNOWN_SERVICE
           analysis == investigate(deployment, backend)
           called == agent_log (+) SetToBag({[type |-> "alert", id |-> job_id,
                                              backend |-> backend, at |-> now]})
           delivered == slack_log (+) SetToBag({[type |-> "alert", id |-> job_id,
                                                 analysis |-> analysis]})
           caught == [pc |-> "except", todo |-> analyzer.todo, job |-> job_id]
       IN  IF fault = "get_batch"
           THEN /\ analyzer' = caught
                /\ UNCHANGED <<jobs, agent_log, slack_log>>
           ELSE IF ~IsSome(batch)
           THEN /\ jobs' = update_job_status(jobs, job_id, "failed", <<>>)
                /\ analyzer' = next_job(analyzer.todo, job_id)
                /\ UNCHANGED <<agent_log, slack_log>>
           ELSE IF fault = "send_analysis"
           THEN /\ agent_log' = called
                /\ analyzer' = caught
                /\ UNCHANGED <<jobs, slack_log>>
           ELSE /\ agent_log' = called
                /\ slack_log' = IF sent THEN delivered ELSE slack_log
                /\ IF fault = "update_job_status"
                   THEN /\ analyzer' = caught
                        /\ UNCHANGED jobs
                   ELSE /\ jobs' = update_job_status(jobs, job_id, "done",
                                                     [completed_at |-> now])
                        /\ analyzer' = next_job(analyzer.todo, job_id)
    /\ UNCHANGED <<now, config, alerts, alert_states, batches, triggered,
                   runs_since_alert, procVars, watchVars, reconcile_outcome, probe,
                   analyses, response, incidentVars, watcher, cacheVars, deployed>>

\* except Exception: update_job_status(job.id, "failed").  The loop has no
\* handler around it: when this call raises too, the exception leaves
\* _process_alert_jobs and loop, and the thread ends.
JobExcept(raises) ==
    /\ analyzer.pc = "except"
    /\ jobs' = IF raises THEN jobs
               ELSE update_job_status(jobs, analyzer.job, "failed", <<>>)
    /\ analyzer' = IF raises THEN [pc |-> "ended", todo |-> {}]
                   ELSE next_job(analyzer.todo, analyzer.job)
    /\ UNCHANGED <<now, config, alerts, alert_states, batches, triggered,
                   runs_since_alert, procVars, watchVars, reconcile_outcome, probe,
                   workerVars, response, incidentVars, watcher, cacheVars, deployed>>

\* One alert reaches the webhook
JobAlertDelivered(item) ==
    /\ \A i \in DOMAIN alerts : alerts[i].fingerprint # item.fingerprint
    /\ ReceiveAlert(<<item>>)

----------------------------------------------------------------------------
(* SlackNotifier: slack.py, and the worker's use of what it returns *)

MAX_ATTEMPTS == 2

\* How one attempt to deliver ends: chat_postMessage (or the write to the
\* mock log file) returns, raises SlackApiError, or raises another error
\* (a connection that fails, a file that cannot be opened)
SendOutcomes == {"ok", "SlackApiError", "OtherError"}

\* The settings SlackNotifier is constructed from
NotifierSettings ==
    [slack_bot_token : {None, Some("xoxb")},
     slack_mock_log_file : {None, Some("slack.log")},
     slack_default_channel : {None, Some("#ops")}]

\* SlackNotifier.__init__
SlackNotifier(settings) ==
    [mock_mode |-> IsSome(settings.slack_mock_log_file),
     enabled |-> IsSome(settings.slack_bot_token) \/ IsSome(settings.slack_mock_log_file),
     default_channel |-> settings.slack_default_channel,
     client |-> IsSome(settings.slack_bot_token) /\ ~IsSome(settings.slack_mock_log_file)]

\* The while loop of lines 70-81 from `attempts` attempts made
RECURSIVE post_message(_, _, _)
post_message(outcomes, attempts, max_attempts) ==
    IF attempts >= max_attempts
    THEN [returned |-> FALSE, raised |-> FALSE, attempts |-> attempts]
    ELSE LET n == attempts + 1
         IN  IF outcomes[n] = "ok"
             THEN [returned |-> TRUE, raised |-> FALSE, attempts |-> n]
             ELSE IF outcomes[n] = "SlackApiError"
             THEN IF n >= max_attempts
                  THEN [returned |-> FALSE, raised |-> FALSE, attempts |-> n]
                  ELSE post_message(outcomes, n, max_attempts)
             ELSE [returned |-> FALSE, raised |-> TRUE, attempts |-> n]

\* SlackNotifier.send_analysis: what it returns or that it raises, and the
\* attempts it made
send_analysis(notifier, channel, outcomes, max_attempts) ==
    IF ~notifier.enabled
    THEN [returned |-> FALSE, raised |-> FALSE, attempts |-> 0]
    ELSE IF ~IsSome(channel) /\ ~IsSome(notifier.default_channel)
    THEN [returned |-> FALSE, raised |-> FALSE, attempts |-> 0]
    ELSE IF notifier.mock_mode
    THEN [returned |-> outcomes[1] = "ok", raised |-> outcomes[1] # "ok", attempts |-> 1]
    ELSE IF ~notifier.client
    THEN [returned |-> FALSE, raised |-> FALSE, attempts |-> 0]
    ELSE post_message(outcomes, 0, max_attempts)

\* One iteration of the worker's loop over list_failed with the notifier's
\* call spelled out: an exception of send_analysis is the iteration's fault
NotifyRollout(rollout_id, settings, outcomes) ==
    /\ rollout_id \in list_failed(rollouts, K8S_CLUSTER_NAME)
    /\ BagCardinality(agent_log) < MaxInvestigations
    /\ LET result == send_analysis(SlackNotifier(settings),
                                   rollouts[rollout_id].slack_channel, outcomes,
                                   MAX_ATTEMPTS)
           db == investigate_rollout([rollouts |-> rollouts, analyses |-> analyses,
                                      agent_log |-> agent_log, slack_log |-> slack_log],
                                     rollout_id, "answers", result.returned,
                                     IF result.raised THEN "send_analysis" ELSE "none",
                                     now)
       IN  /\ rollouts' = db.rollouts
           /\ analyses' = db.analyses
           /\ agent_log' = db.agent_log
           /\ slack_log' = db.slack_log
           /\ probe' = [function |-> "send_analysis",
                        argument |-> [rollout_id |-> rollout_id, settings |-> settings,
                                      outcomes |-> outcomes],
                        result |-> result]
    /\ UNCHANGED <<now, config, alertVars, procVars, replayed, reconcile_outcome,
                   response, incidentVars, serviceVars>>

NextNotify ==
    \/ DeploymentChanged
    \/ \E rollout_id \in 1..MaxRollouts, dep_read \in WorkerDepReads :
            ReconcileRollout(rollout_id, dep_read, None)
    \/ \E rollout_id \in 1..MaxRollouts, settings \in NotifierSettings,
          outcomes \in [1..MAX_ATTEMPTS -> SendOutcomes] :
            NotifyRollout(rollout_id, settings, outcomes)

SpecNotify == InitWatch /\ [][NextNotify]_vars

----------------------------------------------------------------------------
(* NamespaceMetadataCache: service.py.  get reads the clock, takes the lock  *)
(* to look the entry up, fetches outside the lock on a miss and takes the    *)
(* lock again to store what it fetched under the time it read first.        *)

TTL_SECONDS == 60
CacheTickSeconds == TTL_SECONDS \div 2

CacheNamespaces == {"ns1"}

\* threading.Lock: it can be taken when nobody holds it
can_acquire(lock) == lock = None

\* self._cache.get(namespace)
cache_entry(cache, namespace) ==
    IF namespace \in DOMAIN cache THEN Some(cache[namespace]) ELSE None

\* entry[0] of the entry looked up, None when there is none
entry_time(entry) == IF IsSome(entry) THEN Some(The(entry).time) ELSE None

\* The test with the comparison made inclusive
cache_hit_inclusive(entry, t, ttl) ==
    IsSome(entry) /\ t - The(entry).time <= ttl

\* entry and now - entry[0] < self._ttl
cache_hit(entry, t, ttl) ==
    IsSome(entry) /\ t - The(entry).time < ttl

\* self._cache[namespace] = (now, data)
cache_store(cache, namespace, t, data) ==
    [n \in DOMAIN cache \cup {namespace} |->
        IF n = namespace THEN [time |-> t, data |-> data] ELSE cache[n]]

\* fetch_namespace_metadata: the parsed annotations as they are at the time
\* of the read, or {} when read_namespace raises
fetch_namespace_metadata(namespace, readable, t) ==
    [namespace |-> namespace, fetched_at |-> t,
     annotations |-> IF readable THEN "annotations" ELSE "{}"]

\* get is called: now = time.time()
CacheGet(c, namespace) ==
    /\ callers[c].pc = "idle"
    /\ callers' = [callers EXCEPT ![c] = [pc |-> "lock_read", now |-> now,
                                          namespace |-> namespace]]
    /\ UNCHANGED <<now, config, alertVars, procVars, watchVars, reconcile_outcome,
                   probe, workerVars, response, incidentVars, analyzer, deployed, watcher, ns_cache,
                   cache_lock>>

\* with self._lock: the lock is taken, for the lookup or for the store
CacheLock(c) ==
    /\ callers[c].pc \in {"lock_read", "lock_write"}
    /\ can_acquire(cache_lock)
    /\ cache_lock' = Some(c)
    /\ callers' = [callers EXCEPT
                    ![c].pc = IF @ = "lock_read" THEN "read" ELSE "write"]
    /\ UNCHANGED <<now, config, alertVars, procVars, watchVars, reconcile_outcome,
                   probe, workerVars, response, incidentVars, analyzer, deployed, watcher, ns_cache>>

\* The first with block: the lookup, and the return on a hit; the lock is
\* released on the way out
CacheRead(c) ==
    /\ callers[c].pc = "read"
    /\ LET call == callers[c]
           entry == cache_entry(ns_cache, call.namespace)
           hit == cache_hit(entry, call.now, TTL_SECONDS)
       IN  /\ callers' =
                [callers EXCEPT
                    ![c] = IF hit THEN IdleCaller
                           ELSE [pc |-> "fetch", now |-> call.now,
                                 namespace |-> call.namespace,
                                 seen |-> entry_time(entry)]]
           /\ probe' =
                IF hit
                THEN [function |-> "NamespaceMetadataCache.get",
                      argument |-> [caller |-> c, namespace |-> call.namespace,
                                    now |-> call.now],
                      result |-> [from_cache |-> TRUE, seen |-> entry_time(entry),
                                  data |-> The(entry).data]]
                ELSE probe
    /\ cache_lock' = IF cache_lock = Some(c) THEN None ELSE cache_lock
    /\ UNCHANGED <<now, config, alertVars, procVars, watchVars, reconcile_outcome,
                   workerVars, response, incidentVars, analyzer, deployed, watcher, ns_cache>>

\* data = fetch_namespace_metadata(...), outside the lock
CacheFetch(c, readable) ==
    /\ callers[c].pc = "fetch"
    /\ callers' =
        [callers EXCEPT
            ![c] = [pc |-> "lock_write", now |-> @.now, namespace |-> @.namespace,
                    seen |-> @.seen,
                    data |-> fetch_namespace_metadata(@.namespace, readable, now)]]
    /\ UNCHANGED <<now, config, alertVars, procVars, watchVars, reconcile_outcome,
                   probe, workerVars, response, incidentVars, analyzer, deployed, watcher, ns_cache,
                   cache_lock>>

\* The second with block: the store, then return data
CacheWrite(c) ==
    /\ callers[c].pc = "write"
    /\ LET call == callers[c]
       IN  /\ ns_cache' = cache_store(ns_cache, call.namespace, call.now, call.data)
           /\ probe' = [function |-> "NamespaceMetadataCache.get",
                        argument |-> [caller |-> c, namespace |-> call.namespace,
                                      now |-> call.now],
                        result |-> [from_cache |-> FALSE, seen |-> call.seen,
                                    data |-> call.data]]
    /\ callers' = [callers EXCEPT ![c] = IdleCaller]
    /\ cache_lock' = IF cache_lock = Some(c) THEN None ELSE cache_lock
    /\ UNCHANGED <<now, config, alertVars, procVars, watchVars, reconcile_outcome,
                   workerVars, response, incidentVars, analyzer, deployed, watcher>>

\* time.time() advances
CacheClock ==
    /\ now + CacheTickSeconds <= MaxCacheTicks * CacheTickSeconds
    /\ now' = now + CacheTickSeconds
    /\ UNCHANGED <<auxVars, config, alertVars, procVars, watchVars>>

NextCache ==
    \/ CacheClock
    \/ \E c \in Callers, namespace \in CacheNamespaces : CacheGet(c, namespace)
    \/ \E c \in Callers : CacheLock(c)
    \/ \E c \in Callers : CacheRead(c)
    \/ \E c \in Callers, readable \in BOOLEAN : CacheFetch(c, readable)
    \/ \E c \in Callers : CacheWrite(c)

SpecCache == InitWatch /\ [][NextCache]_vars

----------------------------------------------------------------------------
(* WatcherService._watch_loop: service.py.  The thread is at w.stream(...)  *)
(* ("subscribing"), inside `for event in stream` ("consuming") or in the    *)
(* time.sleep(2) of the except branch ("backoff").                          *)

\* What can happen at each position: the call returns ("ok"), the stream
\* yields an event that is handled ("event"), the stream ends because the
\* server-side timeout_seconds=60 is over ("ends"), or an exception is raised
\* by the subscription, by the stream or while one event is handled ("raises")
WatchOutcomes == {"ok", "event", "ends", "raises"}

\* _watch_loop without the try: an exception leaves the thread's function
watch_loop_without_except(pc, outcome) ==
    CASE pc = "subscribing" /\ outcome = "ok" -> "consuming"
      [] pc = "consuming" /\ outcome = "event" -> "consuming"
      [] pc = "consuming" /\ outcome = "ends" -> "subscribing"
      [] pc \in {"subscribing", "consuming"} /\ outcome = "raises" -> "stopped"
      [] pc = "backoff" /\ outcome = "ok" -> "subscribing"
      [] OTHER -> pc

\* The position of _watch_loop after one step: while True / try / for /
\* except Exception / time.sleep(2)
watch_loop(pc, outcome) ==
    CASE pc = "subscribing" /\ outcome = "ok" -> "consuming"
      [] pc = "consuming" /\ outcome = "event" -> "consuming"
      [] pc = "consuming" /\ outcome = "ends" -> "subscribing"
      [] pc \in {"subscribing", "consuming"} /\ outcome = "raises" -> "backoff"
      [] pc = "backoff" /\ outcome = "ok" -> "subscribing"
      [] OTHER -> pc

\* w.stream(...) is called: the subscription is established or the call raises
WatchSubscribe(outcome) ==
    /\ watcher.pc = "subscribing"
    /\ outcome \in {"ok", "raises"}
    /\ watcher' = [pc |-> watch_loop(watcher.pc, outcome)]
    /\ UNCHANGED <<now, config, alertVars, procVars, watchVars, reconcile_outcome,
                   probe, workerVars, response, incidentVars, analyzer, deployed, cacheVars>>

\* The stream yields an event and handle_deployment_event returns
WatchEvent(dep, event_type, namespace_metadata) ==
    /\ watcher.pc = "consuming"
    /\ LET after == handle_deployment_event(rollouts, dep, event_type, K8S_CLUSTER_NAME,
                                            namespace_metadata, now)
       IN  /\ Len(after) <= MaxRollouts
           /\ rollouts' = after
           /\ replayed' =
                (replayed \/ (/\ event_type # "DELETED"
                              /\ Get(dep.labels, ENABLED_LABEL, "") = "true"
                              /\ Len(after) = Len(rollouts)))
    /\ watcher' = [pc |-> watch_loop(watcher.pc, "event")]
    /\ UNCHANGED <<now, config, alertVars, procVars, reconcile_outcome,
                   probe, workerVars, response, incidentVars, analyzer, deployed, cacheVars>>

\* The stream ends, or the stream, the namespace cache or the handler raises
\* before anything is written
WatchStreamStops(outcome) ==
    /\ watcher.pc = "consuming"
    /\ outcome \in {"ends", "raises"}
    /\ watcher' = [pc |-> watch_loop(watcher.pc, outcome)]
    /\ UNCHANGED <<now, config, alertVars, procVars, watchVars, reconcile_outcome,
                   probe, workerVars, response, incidentVars, analyzer, deployed, cacheVars>>

\* time.sleep(2) returns
WatchBackoffOver ==
    /\ watcher.pc = "backoff"
    /\ watcher' = [pc |-> watch_loop(watcher.pc, "ok")]
    /\ UNCHANGED <<now, config, alertVars, procVars, watchVars, reconcile_outcome,
                   probe, workerVars, response, incidentVars, analyzer, deployed, cacheVars>>

NextWatchLoop ==
    \/ Tick
    \/ \E outcome \in WatchOutcomes : WatchSubscribe(outcome)
    \/ \E dep \in WatchedDeployments, event_type \in EventTypes,
          namespace_metadata \in NamespaceMetadatas :
            WatchEvent(dep, event_type, namespace_metadata)
    \/ \E outcome \in WatchOutcomes : WatchStreamStops(outcome)
    \/ WatchBackoffOver

\* The sleep of the except branch returns
SpecWatchLoop == InitWatch /\ [][NextWatchLoop]_vars /\ WF_vars(WatchBackoffOver)

----------------------------------------------------------------------------
(* The pure functions of service.py, called on their own *)

\* Lists of deployment conditions, no type listed twice
ConditionLists ==
    {<<>>,
     <<[type |-> "Progressing", status |-> "False"]>>,
     <<[type |-> "Available", status |-> "False"]>>,
     <<[type |-> "Progressing", status |-> "False"],
       [type |-> "Available", status |-> "False"]>>,
     <<[type |-> "Available", status |-> "False"],
       [type |-> "Progressing", status |-> "False"]>>,
     <<[type |-> "Progressing", status |-> "True"],
       [type |-> "Available", status |-> "True"]>>,
     <<[type |-> "Progressing", status |-> "True"],
       [type |-> "Available", status |-> "False"]>>}

\* dep.status: None, or an object with the available count under one of the
\* two attribute names or under none
PhaseStatuses ==
    {None}
    \cup {[conditions |-> c] : c \in ConditionLists}
    \cup {[available_replicas |-> a, conditions |-> c] :
            a \in 0..MaxReplicas, c \in ConditionLists}
    \cup {[availableReplicas |-> MaxReplicas, conditions |-> c] : c \in ConditionLists}

\* The deployments evaluate_deployment_phase is called on
PhaseInputs ==
    {[replicas |-> r, status |-> st] :
        r \in {None} \cup {Some(k) : k \in 0..MaxReplicas}, st \in PhaseStatuses}

\* The PodFailureSignals should_fail_early is called on
SignalInputs ==
    [crashloop_pods : 0..MaxPods, image_pull_pods : 0..MaxPods,
     pending_scheduling_pods : {0}, total_pods : 0..MaxPods]

EvaluateDeploymentPhase(dep) ==
    /\ probe' = [function |-> "evaluate_deployment_phase", argument |-> dep,
                 result |-> evaluate_deployment_phase(dep)]
    /\ UNCHANGED <<now, config, alertVars, procVars, watchVars, reconcile_outcome, workerVars, response, incidentVars, serviceVars>>

ShouldFailEarly(signals) ==
    /\ probe' = [function |-> "should_fail_early", argument |-> signals,
                 result |-> should_fail_early(signals, 1)]
    /\ UNCHANGED <<now, config, alertVars, procVars, watchVars, reconcile_outcome, workerVars, response, incidentVars, serviceVars>>

AnalyzePodFailures(pods) ==
    /\ probe' = [function |-> "analyze_pod_failures", argument |-> pods,
                 result |-> analyze_pod_failures(pods)]
    /\ UNCHANGED <<now, config, alertVars, procVars, watchVars, reconcile_outcome, workerVars, response, incidentVars, serviceVars>>

NextPure ==
    \/ \E dep \in PhaseInputs : EvaluateDeploymentPhase(dep)
    \/ \E signals \in SignalInputs : ShouldFailEarly(signals)
    \/ \E pods \in PodLists \cup SidecarPodLists : AnalyzePodFailures(pods)

SpecPure == InitWatch /\ [][NextPure]_vars

----------------------------------------------------------------------------
(* NamespaceIncidentRepo: db.py, and the namespace incident detector that   *)
(* calls it.  The repository holds the table and the repo; the detector's  *)
(* pass is taken from its description: for each triggered condition look   *)
(* up an ACTIVE or INVESTIGATING incident of the key, create an incident    *)
(* and a job when there is none, and resolve the incident of a key whose   *)
(* condition is no longer observed.                                        *)

NamespaceIncidentType ==
    {"terminating_stuck", "quota_exceeded", "high_eviction_rate", "high_restart_rate"}

INCIDENT_ACTIVE == "active"
INCIDENT_INVESTIGATING == "investigating"
INCIDENT_RESOLVED == "resolved"

\* NamespaceIncidentRepo.create: a new row with the column defaults
\* status=ACTIVE, started_at=utcnow(), resolved_at=NULL; no uniqueness is
\* declared on (cluster, namespace, incident_type)
incident_create(rows, cluster, namespace, incident_type, t) ==
    Append(rows, [cluster |-> cluster, namespace |-> namespace,
                  incident_type |-> incident_type, status |-> INCIDENT_ACTIVE,
                  started_at |-> t, resolved_at |-> None])

\* The rows of the key the lookup selects
active_incidents(rows, cluster, namespace, incident_type, statuses) ==
    {i \in DOMAIN rows :
        /\ rows[i].cluster = cluster
        /\ rows[i].namespace = namespace
        /\ rows[i].incident_type = incident_type
        /\ rows[i].status \in statuses}

\* The least element of a non-empty set of ids
First(ids) == CHOOSE i \in ids : \A j \in ids : i <= j

\* get_active_incident that selects on status ACTIVE alone
get_active_incident_only_active(rows, cluster, namespace, incident_type) ==
    IF incident_type \notin NamespaceIncidentType THEN None
    ELSE LET ids == active_incidents(rows, cluster, namespace, incident_type,
                                     {INCIDENT_ACTIVE})
         IN  IF ids = {} THEN None ELSE Some(First(ids))

\* NamespaceIncidentRepo.get_active_incident: None for a name that is not a
\* member of the enum, else the id of the first ACTIVE or INVESTIGATING row
get_active_incident(rows, cluster, namespace, incident_type) ==
    IF incident_type \notin NamespaceIncidentType THEN None
    ELSE LET ids == active_incidents(rows, cluster, namespace, incident_type,
                                     {INCIDENT_ACTIVE, INCIDENT_INVESTIGATING})
         IN  IF ids = {} THEN None ELSE Some(First(ids))

\* NamespaceIncidentRepo.resolve
resolve(rows, incident_id, t) ==
    [i \in DOMAIN rows |->
        IF i = incident_id
        THEN [rows[i] EXCEPT !.status = INCIDENT_RESOLVED, !.resolved_at = Some(t)]
        ELSE rows[i]]

\* NamespaceIncidentRepo.update_status
incident_update_status(rows, incident_id, new_status) ==
    [i \in DOMAIN rows |->
        IF i = incident_id THEN [rows[i] EXCEPT !.status = new_status] ELSE rows[i]]

\* The dedup keys the detector scans, in scan order
IncidentKeySeq ==
    <<[namespace |-> "ns1", incident_type |-> "quota_exceeded"],
      [namespace |-> "ns1", incident_type |-> "high_restart_rate"]>>

IncidentKeys == SeqToSet(IncidentKeySeq)

\* The job the detector queues for a new incident
namespace_job(incident_id) ==
    [type |-> "namespace", status |-> "pending", alert_batch_id |-> None,
     rollout_id |-> None, namespace_incident_id |-> Some(incident_id),
     analysis_id |-> None, started_at |-> None, completed_at |-> None]

\* The detector's decision for one key once the lookup has answered:
\* db = [incidents, jobs]
decide_key(db, cluster, key, is_triggered, found, t) ==
    IF is_triggered
    THEN IF IsSome(found) THEN db
         ELSE LET created == incident_create(db.incidents, cluster, key.namespace,
                                             key.incident_type, t)
              IN  [incidents |-> created,
                   jobs |-> Append(db.jobs, namespace_job(Len(created)))]
    ELSE IF IsSome(found)
         THEN [incidents |-> resolve(db.incidents, The(found), t), jobs |-> db.jobs]
         ELSE db

\* One key of a pass: the lookup, then the decision
detect_key(db, cluster, key, is_triggered, t) ==
    decide_key(db, cluster, key, is_triggered,
               get_active_incident(db.incidents, cluster, key.namespace,
                                   key.incident_type), t)

\* One pass over the keys from the i-th on
RECURSIVE detector_pass(_, _, _, _, _)
detector_pass(db, cluster, observed, t, i) ==
    IF i > Len(IncidentKeySeq) THEN db
    ELSE detector_pass(detect_key(db, cluster, IncidentKeySeq[i],
                                  IncidentKeySeq[i] \in observed, t),
                       cluster, observed, t, i + 1)

\* A whole pass of one detector, no other detector running
DetectorPass(d, observed) ==
    /\ detectors[d].pc = "idle"
    /\ Len(incidents) + Cardinality(observed) <= MaxIncidents
    /\ LET db == detector_pass([incidents |-> incidents, jobs |-> jobs],
                               K8S_CLUSTER_NAME, observed, now, 1)
       IN  /\ incidents' = db.incidents
           /\ jobs' = db.jobs
    /\ detectors' =
        [detectors EXCEPT
            ![d] = [pc |-> "idle", observed |-> observed,
                    repeats |-> IF observed # @.observed \/ @.repeats = 0 THEN 1 ELSE 2]]
    /\ UNCHANGED <<now, config, alerts, alert_states, batches, triggered,
                   runs_since_alert, procVars, watchVars, reconcile_outcome, probe,
                   workerVars, response, serviceVars>>

\* The worker takes the incident's job: the incident is under investigation
IncidentInvestigating(incident_id) ==
    /\ incident_id \in DOMAIN incidents
    /\ incidents[incident_id].status = INCIDENT_ACTIVE
    /\ incidents' = incident_update_status(incidents, incident_id, INCIDENT_INVESTIGATING)
    /\ UNCHANGED <<now, config, alertVars, procVars, watchVars, reconcile_outcome,
                   probe, workerVars, response, detectors, serviceVars>>

NextIncidents ==
    \/ Advance(MaxIncidentTicks)
    \/ \E observed \in SUBSET IncidentKeys : DetectorPass("d1", observed)
    \/ \E incident_id \in 1..MaxIncidents : IncidentInvestigating(incident_id)

SpecIncidents == Init /\ [][NextIncidents]_vars

\* The job loop of the analysis worker over the jobs of both producers
\* The namespace detector queues the job of a new incident
NamespaceJobQueued ==
    /\ incidents = <<>>
    /\ DetectorPass("d1", {IncidentKeySeq[1]})

NextJobs ==
    \/ \E item \in JobItems : JobAlertDelivered(item)
    \/ BatcherRunOnce
    \/ NamespaceJobQueued
    \/ AnalyzerPoll
    \/ \E job_id \in 1..MaxAlerts, raises \in BOOLEAN : JobMarkRunning(job_id, raises)
    \/ \E backend \in Backends, sent \in BOOLEAN, fault \in JobFaults :
            JobInvestigate(backend, sent, fault)
    \/ \E raises \in BOOLEAN : JobExcept(raises)

SpecJobs == InitWatch /\ [][NextJobs]_vars

\* The job loop scheduled fairly: the thread keeps running, so each of its
\* steps is taken once it can be
SpecJobsFair ==
    /\ InitWatch
    /\ [][NextJobs]_vars
    /\ WF_vars(BatcherRunOnce)
    /\ WF_vars(AnalyzerPoll)
    /\ WF_vars(\E job_id \in 1..MaxAlerts, raises \in BOOLEAN : JobMarkRunning(job_id, raises))
    /\ WF_vars(\E backend \in Backends, sent \in BOOLEAN, fault \in JobFaults :
                    JobInvestigate(backend, sent, fault))
    /\ WF_vars(\E raises \in BOOLEAN : JobExcept(raises))

----------------------------------------------------------------------------
(* The analyzer service that runs: the second definitions of AnalysisWorker *)
(* and AnalyzerService (service.py 563-641, 723-741) replace the first at   *)
(* import.  start() starts no batcher thread and loop() takes failed        *)
(* rollouts only.                                                           *)

\* AlertBatcher.run_once called from outside the analyzer service
\* (verify_alerts.py): the only way a batch and its job come to exist
BatcherRunFromScript == BatcherRunOnce

\* The watcher service stores the rollout of one deployment
RolloutStored ==
    /\ rollouts = <<>>
    /\ DeploymentChanged

NextAnalyzerService ==
    \/ \E item \in JobItems : JobAlertDelivered(item)
    \/ BatcherRunFromScript
    \/ RolloutStored
    \/ \E rollout_id \in 1..MaxRollouts, dep_read \in WorkerDepReads :
            ReconcileRollout(rollout_id, dep_read, None)
    \/ \E rollout_id \in 1..MaxRollouts, backend \in Backends, sent \in BOOLEAN,
          fault \in Faults :
            InvestigateRollout(rollout_id, backend, sent, fault)

\* while True: for rollout in list_failed(...): ...; time.sleep(15)
SpecAnalyzerService ==
    /\ InitWatch
    /\ [][NextAnalyzerService]_vars
    /\ WF_vars(\E rollout_id \in 1..MaxRollouts, backend \in Backends, sent \in BOOLEAN,
                  fault \in Faults :
                    InvestigateRollout(rollout_id, backend, sent, fault))

----------------------------------------------------------------------------
(* Two detector runs interleaved: the lookup and the decision that follows  *)
(* it are separate transactions of the repo                                *)

\* get_active_incident for one key of the scan, in its own session
DetectorLookup(d, key, is_triggered) ==
    /\ detectors[d].pc = "idle"
    /\ Len(incidents) < MaxIncidents
    /\ detectors' =
        [detectors EXCEPT
            ![d] = [pc |-> "decide", observed |-> IF is_triggered THEN {key} ELSE {},
                    repeats |-> 0, key |-> key,
                    found |-> get_active_incident(incidents, K8S_CLUSTER_NAME,
                                                  key.namespace, key.incident_type)]]
    /\ UNCHANGED <<now, config, alertVars, procVars, watchVars, reconcile_outcome,
                   probe, workerVars, response, incidents, serviceVars>>

\* create or resolve on the answer the lookup gave, in sessions of their own
DetectorDecide(d) ==
    /\ detectors[d].pc = "decide"
    /\ LET db == decide_key([incidents |-> incidents, jobs |-> jobs], K8S_CLUSTER_NAME,
                            detectors[d].key, detectors[d].key \in detectors[d].observed,
                            detectors[d].found, now)
       IN  /\ incidents' = db.incidents
           /\ jobs' = db.jobs
    /\ detectors' =
        [detectors EXCEPT ![d] = [pc |-> "idle", observed |-> @.observed, repeats |-> 0]]
    /\ UNCHANGED <<now, config, alerts, alert_states, batches, triggered,
                   runs_since_alert, procVars, watchVars, reconcile_outcome, probe,
                   workerVars, response, serviceVars>>

NextIncidentsConc ==
    \/ Advance(MaxIncidentTicks)
    \/ \E d \in Detectors, key \in IncidentKeys, is_triggered \in BOOLEAN :
            DetectorLookup(d, key, is_triggered)
    \/ \E d \in Detectors : DetectorDecide(d)
    \/ \E incident_id \in 1..MaxIncidents : IncidentInvestigating(incident_id)

SpecIncidentsConc == Init /\ [][NextIncidentsConc]_vars

----------------------------------------------------------------------------
(* Properties *)

DAY == 24 * 3600

\* last_investigated_at of a fingerprint, None when it has no state row
LastInvestigatedAt(states, fp) ==
    IF fp \in DOMAIN states THEN states[fp].last_investigated_at ELSE None

\* The fingerprint was investigated less than 24 hours before t
InvestigatedWithinDay(states, fp, t) ==
    /\ IsSome(LastInvestigatedAt(states, fp))
    /\ t - The(LastInvestigatedAt(states, fp)) < DAY

\* The alert record was counted as triggering an investigation
IsTriggered(log, id) == \E k \in DOMAIN log : log[k].alert_id = id

\* The alert records a step stores
NewAlertIds == (Len(alerts) + 1)..Len(alerts')

\* i is the first / the last record of its fingerprint among those a step stores
FirstNewOfFingerprint(i) ==
    \A k \in NewAlertIds : k < i => alerts'[k].fingerprint # alerts'[i].fingerprint
LastNewOfFingerprint(i) ==
    \A k \in NewAlertIds : k > i => alerts'[k].fingerprint # alerts'[i].fingerprint

\* Any two triggering deliveries of one fingerprint are at least 24 hours apart
TriggersSpaced ==
    \A i, j \in DOMAIN triggered :
        (i < j /\ triggered[i].fingerprint = triggered[j].fingerprint)
            => triggered[j].at - triggered[i].at >= DAY

\* C1: with deliveries processed one after another, a firing delivery of a
\* fingerprint investigated less than 24 hours ago does not trigger, whatever
\* the stored status (so not after firing -> resolved -> firing either), and
\* any two triggering deliveries of one fingerprint are at least 24 hours apart.
C1_StickyThrottle ==
    /\ []TriggersSpaced
    /\ [][\A i \in NewAlertIds :
            (/\ alerts'[i].status = "firing"
             /\ InvestigatedWithinDay(alert_states, alerts'[i].fingerprint, now))
                => (alerts'[i].batched /\ ~IsTriggered(triggered', i))]_vars

\* A fingerprint fired and triggered, resolved, and fired again inside the
\* window without triggering
C1_Witness ==
    \E i, j, k \in DOMAIN alerts :
        /\ i < j /\ j < k
        /\ alerts[i].fingerprint = alerts[j].fingerprint
        /\ alerts[j].fingerprint = alerts[k].fingerprint
        /\ alerts[i].status = "firing" /\ IsTriggered(triggered, i)
        /\ alerts[j].status = "resolved"
        /\ alerts[k].status = "firing" /\ ~IsTriggered(triggered, k)
        /\ alerts[k].batched
        /\ alerts[k].received_at - alerts[i].received_at < DAY
        /\ alerts[k].received_at > alerts[i].received_at

\* C2: a firing delivery of a fingerprint that is not throttled, whose prior
\* state is absent, resolved or firing, triggers: its record is left
\* batched=false and the state's last_investigated_at becomes the delivery's now.
C2_UnthrottledFiringTriggers ==
    [][\A i \in NewAlertIds :
        LET fp == alerts'[i].fingerprint
        IN  (/\ alerts'[i].status = "firing"
             /\ FirstNewOfFingerprint(i)
             /\ ~InvestigatedWithinDay(alert_states, fp, now)
             /\ (fp \in DOMAIN alert_states
                    => alert_states[fp].status \in {"resolved", "firing"}))
                => (/\ ~alerts'[i].batched
                    /\ alerts'[i].batch_id = None
                    /\ IsTriggered(triggered', i)
                    /\ alert_states'[fp].last_investigated_at = Some(now))]_vars

\* A fingerprint whose stored status was firing triggered again, 24 hours or
\* more after its last investigation
C2_Witness ==
    \E i, j \in DOMAIN triggered, k \in DOMAIN alerts :
        /\ i < j
        /\ triggered[i].fingerprint = triggered[j].fingerprint
        /\ k = triggered[j].alert_id - 1
        /\ alerts[k].fingerprint = triggered[j].fingerprint
        /\ alerts[k].status = "firing"
        /\ ~alerts[triggered[j].alert_id].batched
        /\ alert_states[triggered[j].fingerprint].last_investigated_at
            = Some(triggered[j].at)

\* C3: a resolved delivery never triggers, throttled or not; after it the
\* stored status of the fingerprint is "resolved".
C3_ResolvedNeverTriggers ==
    [][\A i \in NewAlertIds :
        alerts'[i].status = "resolved"
            => (/\ alerts'[i].batched
                /\ ~IsTriggered(triggered', i)
                /\ LastNewOfFingerprint(i)
                    => alert_states'[alerts'[i].fingerprint].status = "resolved")]_vars

\* A resolved delivery of a fingerprint never investigated before, and one of
\* a fingerprint investigated less than 24 hours before
C3_Witness ==
    /\ \E i \in DOMAIN alerts :
        /\ alerts[i].status = "resolved"
        /\ alerts[i].batched
        /\ \A t \in DOMAIN triggered :
            triggered[t].fingerprint = alerts[i].fingerprint => triggered[t].alert_id > i
    /\ \E i, j \in DOMAIN alerts :
        /\ i < j
        /\ alerts[i].fingerprint = alerts[j].fingerprint
        /\ IsTriggered(triggered, i)
        /\ alerts[j].status = "resolved"
        /\ alerts[j].received_at - alerts[i].received_at < DAY
        /\ alert_states[alerts[j].fingerprint].status = "resolved"

\* C4: last_investigated_at of a fingerprint changes only in a step that
\* stores a triggering delivery of that fingerprint, and then to that
\* delivery's now; every other step leaves it as it is (None stays None).
C4_LastInvestigatedFrame ==
    [][\A fp \in Fingerprints :
        LastInvestigatedAt(alert_states', fp) # LastInvestigatedAt(alert_states, fp)
            => (/\ LastInvestigatedAt(alert_states', fp) = Some(now)
                /\ \E i \in NewAlertIds :
                    /\ alerts'[i].fingerprint = fp
                    /\ IsTriggered(triggered', i))]_vars

\* A delivery after the investigation left last_investigated_at alone, and a
\* fingerprint that was delivered but never investigated has none
C4_Witness ==
    /\ \E fp \in DOMAIN alert_states :
        /\ IsSome(alert_states[fp].last_investigated_at)
        /\ alert_states[fp].last_received_at > The(alert_states[fp].last_investigated_at)
    /\ \E fp \in DOMAIN alert_states : alert_states[fp].last_investigated_at = None

\* C5: an alert item that is not selected for investigation never becomes a
\* member of a batch, under any interleaving of the delivery with the batcher.
C5_SkippedNeverBatched ==
    \A i \in DOMAIN alerts : ~IsTriggered(triggered, i) => alerts[i].batch_id = None

\* C6: with deliveries of one fingerprint processed concurrently, triggering
\* deliveries of the fingerprint are still at least 24 hours apart.
C6_ConcurrentTriggersSpaced ==
    \A j \in DOMAIN triggered : \A i \in 1..(j - 1) :
        triggered[i].fingerprint = triggered[j].fingerprint
            => triggered[j].at >= triggered[i].at + DAY

\* C7: a run of the batcher that follows another run with no alert arriving in
\* between creates no batch and no job and changes no alert.
C7_SecondRunCreatesNothing ==
    [][(runs_since_alert >= 1 /\ BatcherRunOnce)
        => UNCHANGED <<alerts, batches, jobs>>]_vars

\* Two runs since the last alert arrived, the first of which created a batch
C7_Witness ==
    /\ runs_since_alert = 2
    /\ batches # <<>>
    /\ alerts[Len(alerts)].batch_id # None

\* C8: every batch the batcher creates is committed together with exactly one
\* job (type alert, pending, alert_batch_id set, the other references unset)
\* and with batched=true and batch_id on every alert of its group and on no
\* other alert; no state holds a batch without its job or with an unmarked
\* member.
C8_BatchAtomic ==
    /\ [](\A b \in DOMAIN batches :
            /\ Cardinality({j \in DOMAIN jobs : jobs[j].alert_batch_id = Some(b)}) = 1
            /\ \A j \in DOMAIN jobs :
                jobs[j].alert_batch_id = Some(b)
                    => (/\ jobs[j].type = "alert"
                        /\ jobs[j].rollout_id = None
                        /\ jobs[j].namespace_incident_id = None)
            /\ \A i \in DOMAIN alerts : alerts[i].batch_id = Some(b) => alerts[i].batched
            /\ Cardinality({i \in DOMAIN alerts : alerts[i].batch_id = Some(b)})
                = batches[b].count)
    /\ [][(batches' # batches \/ jobs' # jobs)
            => (/\ batcher.pc = "batching"
                /\ LET group == Head(batcher.groups).group
                       b == Len(batches) + 1
                   IN  /\ Len(batches') = b
                       /\ SubSeq(batches', 1, Len(batches)) = batches
                       /\ jobs' = Append(jobs,
                                         [type |-> "alert", status |-> "pending",
                                          alert_batch_id |-> Some(b),
                                          rollout_id |-> None,
                                          namespace_incident_id |-> None,
                                          analysis_id |-> None,
                                          started_at |-> None,
                                          completed_at |-> None])
                       /\ Len(alerts') = Len(alerts)
                       /\ \A i \in DOMAIN alerts :
                            alerts'[i] =
                                IF i \in SeqToSet(group)
                                THEN [alerts[i] EXCEPT !.batched = TRUE,
                                                       !.batch_id = Some(b)]
                                ELSE alerts[i])]_vars

\* A batch with its member, beside an alert that is in no batch and unbatched
C8_Witness ==
    \E b \in DOMAIN batches : \E i, k \in DOMAIN alerts :
        /\ alerts[i].batch_id = Some(b)
        /\ alerts[k].batch_id = None
        /\ ~alerts[k].batched

\* The unbatched alerts inside the lookback window at time t
EligibleAlerts(t) ==
    {i \in DOMAIN alerts :
        /\ ~alerts[i].batched
        /\ alerts[i].received_at >= t - config.alert_correlation_window_seconds}

\* The correlation key of an alert as the pair the batch records
key_pair(labels) == <<label_namespace(labels), label_service(labels)>>

\* Those of them that have the correlation key
AlertsSharing(pair, t) == {i \in EligibleAlerts(t) : key_pair(alerts[i].labels) = pair}

\* Those of them whose formatted key "namespace/service" is the given string
AlertsSharingJoined(key, t) ==
    {i \in EligibleAlerts(t) : group_key(alerts[i].labels) = key}

\* C9: a batch is created for a correlation key (namespace, service) only when
\* at least alert_batch_min_count unbatched alerts inside the lookback window
\* share the key; a smaller group gets no batch and no job and its alerts stay
\* unbatched.
C9_MinCount ==
    [][/\ \A b \in (Len(batches) + 1)..Len(batches') :
            \E i \in EligibleAlerts(now) :
                /\ alerts'[i].batch_id = Some(b)
                /\ Cardinality(AlertsSharing(key_pair(alerts[i].labels), now))
                    >= config.alert_batch_min_count
       /\ \A i \in EligibleAlerts(now) :
            Cardinality(AlertsSharing(key_pair(alerts[i].labels), now))
                    < config.alert_batch_min_count
                => alerts'[i] = alerts[i]
       /\ Len(jobs') - Len(jobs) = Len(batches') - Len(batches)
       /\ \A j \in (Len(jobs) + 1)..Len(jobs') :
            \E b \in (Len(batches) + 1)..Len(batches') : jobs'[j].alert_batch_id = Some(b)
      ]_vars

\* The same statement for the formatted key the batcher groups by
MinCountPerJoinedKey ==
    [][/\ \A b \in (Len(batches) + 1)..Len(batches') :
            Cardinality(AlertsSharingJoined(batches'[b].namespace \o <<"/">>
                                                \o batches'[b].service, now))
                >= config.alert_batch_min_count
       /\ \A i \in EligibleAlerts(now) :
            Cardinality(AlertsSharingJoined(group_key(alerts[i].labels), now))
                    < config.alert_batch_min_count
                => alerts'[i] = alerts[i]
       /\ Len(jobs') - Len(jobs) = Len(batches') - Len(batches)
       /\ \A j \in (Len(jobs) + 1)..Len(jobs') :
            \E b \in (Len(batches) + 1)..Len(batches') : jobs'[j].alert_batch_id = Some(b)
      ]_vars

\* C10: the store holds at most one rollout per (cluster, namespace,
\* deployment, generation), whatever events were replayed.
C10_UniqueRolloutIdentity ==
    \A i, j \in DOMAIN rollouts :
        (/\ rollouts[i].cluster = rollouts[j].cluster
         /\ rollouts[i].namespace = rollouts[j].namespace
         /\ rollouts[i].deployment = rollouts[j].deployment
         /\ rollouts[i].generation = rollouts[j].generation) => i = j

\* Two rollouts are stored and an event of a stored identity was handled again
C10_Witness == replayed /\ Len(rollouts) >= 2

\* The columns of a rollout that handle_deployment_event may refresh
METADATA_COLUMNS == {"metadata_json", "team", "slack_channel"}

\* C11: a watch event for a rollout identity that is already stored changes no
\* column of any stored rollout other than metadata_json, team and
\* slack_channel; status, started_at, failed_at and completed_at stay as they
\* are whatever the deployment's phase.
C11_EventRefreshesOnlyMetadata ==
    \A dep \in WatchedDeployments, event_type \in EventTypes,
       namespace_metadata \in NamespaceMetadatas :
        LET after == handle_deployment_event(rollouts, dep, event_type, K8S_CLUSTER_NAME,
                                             namespace_metadata, now)
        IN  \A i \in DOMAIN rollouts :
                \A column \in DOMAIN rollouts[i] \ METADATA_COLUMNS :
                    after[i][column] = rollouts[i][column]

\* A rollout that reconciliation closed carries the namespace metadata of a
\* later event, and one that is still active does too
C11_Witness ==
    /\ replayed
    /\ \E i \in DOMAIN rollouts :
        /\ rollouts[i].status \in {"SUCCESS", "FAILED"}
        /\ rollouts[i].team = Some("team-b")
        /\ rollouts[i].metadata_json = "annotations"
        /\ The(rollouts[i].started_at) < now

TERMINAL_STATUSES == {"SUCCESS", "FAILED"}

\* C12: a rollout whose status is SUCCESS or FAILED keeps that status in every
\* later step, watch event or reconcile iteration, and the reconcile loop
\* iterates only over rollouts whose stored status is PENDING or ROLLING_OUT.
C12_TerminalStatusIsFinal ==
    /\ [](\A i \in list_active(rollouts, K8S_CLUSTER_NAME) :
            rollouts[i].status \notin TERMINAL_STATUSES)
    /\ [][\A i \in DOMAIN rollouts :
            rollouts[i].status \in TERMINAL_STATUSES
                => rollouts'[i].status = rollouts[i].status]_vars

\* A rollout failed and one succeeded at an earlier time; events and reconcile
\* iterations have been handled since
C12_Witness ==
    /\ replayed
    /\ reconcile_outcome # "none"
    /\ \E i, j \in DOMAIN rollouts :
        /\ rollouts[i].status = "FAILED"
        /\ IsSome(rollouts[i].failed_at) /\ The(rollouts[i].failed_at) < now
        /\ rollouts[j].status = "SUCCESS"
        /\ IsSome(rollouts[j].completed_at) /\ The(rollouts[j].completed_at) < now

\* The early-failure rule fires on what the pod listing gave
EarlyFailure(pods) ==
    IsSome(pods) /\ should_fail_early(analyze_pod_failures(The(pods)), 1)

\* The status the phase evaluation asks for
StatusByPhase(dep, rollout, t, timeout) ==
    LET phase == evaluate_deployment_phase(dep)
    IN  IF phase = "STABLE" THEN "SUCCESS"
        ELSE IF phase = "FAILED_PROGRESS" THEN "FAILED"
        ELSE IF t - The(rollout.started_at) > timeout THEN "FAILED"
        ELSE IF phase = "PENDING" THEN "PENDING"
        ELSE "ROLLING_OUT"

\* C13: reconciling an active rollout whose deployment is readable, when the
\* early-failure rule does not fire, stores SUCCESS for phase STABLE, else
\* FAILED for FAILED_PROGRESS, else FAILED when now - started_at exceeds the
\* timeout, else PENDING or ROLLING_OUT by phase; in the last case
\* update_status is called only when the value differs from the stored one.
\* No other rollout is touched.
C13_ReconcileByPhase ==
    \A rollout_id \in list_active(rollouts, K8S_CLUSTER_NAME),
       dep \in DepStatuses, pods \in PodReads :
        ~EarlyFailure(pods) =>
            LET timeout == config.rollout_timeout_seconds
                after == reconcile_rollout(rollouts, dep, rollout_id, now, timeout, pods)
                call == reconcile_call(dep, rollouts[rollout_id], now, timeout, pods)
                expected == StatusByPhase(dep, rollouts[rollout_id], now, timeout)
            IN  /\ after[rollout_id].status = expected
                /\ expected \in {"PENDING", "ROLLING_OUT"}
                    => (IsSome(call) <=> expected # rollouts[rollout_id].status)
                /\ expected \in TERMINAL_STATUSES => IsSome(call)
                /\ \A j \in DOMAIN rollouts : j # rollout_id => after[j] = rollouts[j]

\* The last reconcile iteration wrote nothing for a rollout that has been
\* active for a while, and another rollout failed after the timeout
C13_Witness ==
    /\ reconcile_outcome = "skipped"
    /\ \E i \in list_active(rollouts, K8S_CLUSTER_NAME) : The(rollouts[i].started_at) < now
    /\ \E j \in DOMAIN rollouts :
        /\ rollouts[j].status = "FAILED"
        /\ The(rollouts[j].failed_at) - The(rollouts[j].started_at)
            > config.rollout_timeout_seconds

\* C14: when the pods satisfy the early-failure rule, reconciling an active
\* rollout sets status FAILED and failed_at = now and nothing else, whatever
\* the phase (STABLE included) and whether or not the timeout has elapsed.
C14_EarlyFailurePreempts ==
    \A rollout_id \in list_active(rollouts, K8S_CLUSTER_NAME),
       dep \in DepStatuses, pods \in PodReads :
        EarlyFailure(pods) =>
            reconcile_rollout(rollouts, dep, rollout_id, now,
                              config.rollout_timeout_seconds, pods)
                = [rollouts EXCEPT ![rollout_id].status = "FAILED",
                                   ![rollout_id].failed_at = Some(now)]

\* A rollout was failed by the reconcile loop in the instant it started,
\* before any timeout, and has no completed_at
C14_Witness ==
    /\ reconcile_outcome = "written"
    /\ \E i \in DOMAIN rollouts :
        /\ rollouts[i].status = "FAILED"
        /\ rollouts[i].failed_at = rollouts[i].started_at
        /\ rollouts[i].completed_at = None

\* The available replica count of a deployment, None when it is not known
AvailableOf(dep) ==
    IF "available_replicas" \in DOMAIN dep.status THEN Some(dep.status.available_replicas)
    ELSE IF "availableReplicas" \in DOMAIN dep.status THEN Some(dep.status.availableReplicas)
    ELSE None

\* The desired replica count, 0 when spec.replicas is not set
DesiredOf(dep) == IF IsSome(dep.replicas) THEN The(dep.replicas) ELSE 0

\* The deployment lists a condition of the type with the status
HasCondition(dep, type, status) ==
    /\ "conditions" \in DOMAIN dep.status
    /\ \E i \in DOMAIN dep.status.conditions :
        /\ dep.status.conditions[i].type = type
        /\ dep.status.conditions[i].status = status

PhaseOf(dep) ==
    IF /\ IsSome(AvailableOf(dep))
       /\ DesiredOf(dep) > 0
       /\ The(AvailableOf(dep)) >= DesiredOf(dep)
    THEN "STABLE"
    ELSE IF HasCondition(dep, "Progressing", "False") THEN "FAILED_PROGRESS"
    ELSE IF HasCondition(dep, "Available", "False") THEN "PENDING"
    ELSE "ROLLING_OUT"

\* C15: evaluate_deployment_phase is STABLE iff the available count is known,
\* desired > 0 and available >= desired; otherwise FAILED_PROGRESS iff the
\* Progressing condition is "False"; otherwise PENDING iff the Available
\* condition is "False"; otherwise ROLLING_OUT.  With no conditions and fewer
\* available than desired it is ROLLING_OUT, with both conditions False it is
\* FAILED_PROGRESS unless STABLE, and with desired = 0 it is never STABLE.
C15_PhaseEvaluation ==
    (probe # <<>> /\ probe.function = "evaluate_deployment_phase") =>
        LET dep == probe.argument
        IN  /\ probe.result = PhaseOf(dep)
            /\ DesiredOf(dep) = 0 => probe.result # "STABLE"
            /\ (/\ HasCondition(dep, "Progressing", "False")
                /\ HasCondition(dep, "Available", "False")
                /\ probe.result # "STABLE") => probe.result = "FAILED_PROGRESS"
            /\ (/\ "conditions" \in DOMAIN dep.status
                /\ dep.status.conditions = <<>>
                /\ IsSome(AvailableOf(dep))
                /\ The(AvailableOf(dep)) < DesiredOf(dep)) => probe.result = "ROLLING_OUT"

\* Called with desired 3, fewer available and no conditions: ROLLING_OUT
C15_Witness ==
    /\ probe # <<>>
    /\ probe.function = "evaluate_deployment_phase"
    /\ probe.argument.replicas = Some(3)
    /\ probe.argument.status = [available_replicas |-> 1, conditions |-> <<>>]
    /\ probe.result = "ROLLING_OUT"

\* C16: should_fail_early is true iff total_pods >= 1 and crashloop_pods +
\* image_pull_pods >= max(1, floor(total_pods / 2)): 3 failing of 5 is true,
\* 1 failing of 5 is false, 0 pods is false.
C16_ShouldFailEarly ==
    (probe # <<>> /\ probe.function = "should_fail_early") =>
        LET signals == probe.argument
            failing == signals.crashloop_pods + signals.image_pull_pods
            total == signals.total_pods
        IN  /\ probe.result <=>
                (/\ total >= 1
                 /\ failing >= 1
                 /\ 2 * failing >= total - 1)
            /\ (total = 5 /\ failing = 3) => probe.result
            /\ (total = 5 /\ failing = 1) => ~probe.result
            /\ total = 0 => ~probe.result

\* Called with 5 pods of which 3 are in CrashLoopBackOff: true
C16_Witness ==
    /\ probe # <<>>
    /\ probe.function = "should_fail_early"
    /\ probe.argument.total_pods = 5
    /\ probe.argument.crashloop_pods = 3
    /\ probe.argument.image_pull_pods = 0
    /\ probe.result = TRUE

\* The number of entries of a log (a bag) about one rollout or one job
CountIn(log, type, id) ==
    BagCardinality([e \in {x \in BagToSet(log) : x.type = type /\ x.id = id} |-> log[e]])

\* C17: for every failed rollout, whatever the diagnostic, notifier and store
\* calls do, the diagnostic engine is invoked at most once and at most one
\* notification is sent for that rollout.
C17_InvestigatedAndNotifiedOnce ==
    \A id \in DOMAIN rollouts :
        rollouts[id].status = "FAILED" =>
            /\ CountIn(agent_log, "rollout", id) <= 1
            /\ CountIn(slack_log, "rollout", id) <= 1

\* The text investigate returns in place of a result when the agent call raised
FABRICATED_SUMMARY == "Agent failed to investigate"

\* Every diagnostic call made for the rollout failed, and there was one
DiagnosticFailed(id) ==
    /\ CountIn(agent_log, "rollout", id) >= 1
    /\ \A c \in BagToSet(agent_log) :
        (c.type = "rollout" /\ c.id = id) => c.backend = "raises"

\* C18: when the diagnostic call for a rollout fails, the rollout has
\* analysis_status FAILED, no AnalysisRecord is stored for it and its
\* analysis_id is null; no Analysis text standing in for a result is sent to
\* the notifier or stored.
C18_FailedDiagnosticLeavesNoAnalysis ==
    /\ \A id \in DOMAIN rollouts :
        DiagnosticFailed(id) =>
            /\ rollouts[id].analysis_status = "FAILED"
            /\ rollouts[id].analysis_id = None
            /\ \A k \in DOMAIN analyses : analyses[k].rollout_id # id
    /\ \A m \in BagToSet(slack_log) : m.analysis.summary # FABRICATED_SUMMARY
    /\ \A k \in DOMAIN analyses : analyses[k].analysis.summary # FABRICATED_SUMMARY

\* An iteration over the rollout has raised: the agent was called for it and
\* append_analysis, the last call of an iteration, has not set DONE
RolloutInvestigationRaised(id) ==
    /\ CountIn(agent_log, "rollout", id) >= 1
    /\ rollouts[id].analysis_status # "DONE"

\* C19: once processing an investigation has raised, the outcome is terminal:
\* a job marked failed stays failed, and neither the job nor the rollout is
\* investigated again, so the agent is not called for it any more.
C19_RaisedInvestigationIsTerminal ==
    [][/\ \A id \in DOMAIN rollouts :
            RolloutInvestigationRaised(id) =>
                CountIn(agent_log', "rollout", id) = CountIn(agent_log, "rollout", id)
       /\ \A j \in DOMAIN jobs :
            jobs[j].status = "failed" =>
                /\ jobs'[j].status = "failed"
                /\ CountIn(agent_log', "alert", j) = CountIn(agent_log, "alert", j)]_vars

\* The alert-job half of C19 on its own: a failed job stays failed and is
\* investigated at most once
FailedJobIsTerminal ==
    [][\A j \in DOMAIN jobs :
            /\ CountIn(agent_log', "alert", j) <= 1
            /\ jobs[j].status = "failed" =>
                /\ jobs'[j].status = "failed"
                /\ CountIn(agent_log', "alert", j) = CountIn(agent_log, "alert", j)]_vars

HOUR == 60 * 60

\* The rollouts of the cluster, in the namespace when one is given, for which
\* the agent was called within the trailing hour
InvestigatedInWindow(cluster, namespace) ==
    {id \in DOMAIN rollouts :
        /\ rollouts[id].cluster = cluster
        /\ namespace # None => rollouts[id].namespace = The(namespace)
        /\ \E c \in BagToSet(agent_log) :
            c.type = "rollout" /\ c.id = id /\ c.at >= now - HOUR}

\* C20: investigations are dispatched only within the hourly caps: in the
\* trailing hour at most max_investigations_per_namespace_per_hour per
\* namespace and at most max_investigations_per_cluster_per_hour in the
\* cluster; with a cap of 2 and 3 failed rollouts in one hour, 2 are
\* investigated and 1 is left for later.
C20_DispatchWithinCaps ==
    /\ \A id \in DOMAIN rollouts :
        Cardinality(InvestigatedInWindow(K8S_CLUSTER_NAME, Some(rollouts[id].namespace)))
            <= config.max_investigations_per_namespace_per_hour
    /\ Cardinality(InvestigatedInWindow(K8S_CLUSTER_NAME, None))
            <= config.max_investigations_per_cluster_per_hour

\* C22: when reading the live deployment of an active rollout fails in a
\* reconcile pass, the rollout's record is left unchanged (no write to status,
\* failed_at or completed_at, nor to any other row) and the rollout is still
\* among the active rollouts the next pass examines.
C22_UnreadableLeavesRolloutUnchanged ==
    [][\A id \in 1..MaxRollouts :
            ReconcileRollout(id, None, None) =>
                /\ rollouts' = rollouts
                /\ id \in list_active(rollouts', K8S_CLUSTER_NAME)]_vars

\* A reconcile step found a deployment unreadable while its clock had passed
\* the rollout's timeout, and the rollout is still active
C22_Witness ==
    /\ reconcile_outcome = "unreadable"
    /\ \E id \in list_active(rollouts, K8S_CLUSTER_NAME) :
        now - The(rollouts[id].started_at) > config.rollout_timeout_seconds

\* The last call of handle_deployment_event, None when there was none
EventCall == IF probe # <<>> /\ probe.function = "handle_deployment_event" THEN Some(probe) ELSE None

\* The deployment carries the label project-fyr/enabled=true
DeploymentLabelled(dep) ==
    ENABLED_LABEL \in DOMAIN dep.labels /\ dep.labels[ENABLED_LABEL] = "true"

\* The namespace metadata carries project-fyr/enabled=true
NamespaceAnnotated(namespace_metadata) ==
    /\ "metadata_json" \in DOMAIN namespace_metadata
    /\ namespace_metadata.metadata_json = NAMESPACE_ENABLED

\* C23: handle_deployment_event writes nothing to the store for a DELETED
\* event and, with watch-all off, for an ADDED or MODIFIED event of a
\* deployment enabled neither by its label nor by the namespace annotation;
\* for such a deployment it does not even look the rollout up.
C23_IgnoredEventsWriteNothing ==
    IsSome(EventCall) =>
        LET call == The(EventCall).argument
            result == The(EventCall).result
            not_opted_in == /\ call.event_type # "DELETED"
                            /\ ~config.watch_all_namespaces
                            /\ ~DeploymentLabelled(call.dep)
                            /\ ~NamespaceAnnotated(call.namespace_metadata)
        IN  /\ (call.event_type = "DELETED" \/ not_opted_in) =>
                    /\ ~result.changed
                    /\ \A i \in DOMAIN result.calls :
                        result.calls[i] \notin {"create", "update_metadata", "update_status"}
            /\ not_opted_in => result.calls = <<>>

\* An ADDED event of a deployment without the label, in a namespace without
\* the annotation, was handled with watch-all off
C23_Witness ==
    /\ IsSome(EventCall)
    /\ The(EventCall).argument.event_type = "ADDED"
    /\ The(EventCall).argument.dep.labels = <<>>
    /\ The(EventCall).argument.namespace_metadata = [metadata_json |-> "{}"]
    /\ ~config.watch_all_namespaces
    /\ config.namespace_label_enabled
    /\ The(EventCall).result.calls = <<>>
    /\ Len(rollouts) >= 1

\* C24: handle_deployment_event creates a rollout for an ADDED event of a new
\* deployment without the project-fyr/enabled label when watch_all_namespaces
\* is true, and when namespace_label_enabled is true and the namespace
\* metadata carries project-fyr/enabled=true; with both switches off the
\* deployment label alone enables it.
C24_OptInByWatchAllOrNamespace ==
    IsSome(EventCall) =>
        LET call == The(EventCall).argument
            result == The(EventCall).result
            fresh == call.event_type = "ADDED" /\ ~result.stored
        IN  /\ (/\ fresh
                /\ ~(ENABLED_LABEL \in DOMAIN call.dep.labels)
                /\ \/ config.watch_all_namespaces
                   \/ /\ config.namespace_label_enabled
                      /\ NamespaceAnnotated(call.namespace_metadata))
                => result.created
            /\ (/\ fresh
                /\ ~config.watch_all_namespaces
                /\ ~config.namespace_label_enabled
                /\ DeploymentLabelled(call.dep))
                => result.created

----------------------------------------------------------------------------
(* The webhook endpoint *)

\* C27: one iteration of the handler's loop, applied to any alert item in any
\* reachable store, leaves the state row of the item's fingerprint with the
\* incoming status and last_received_at equal to the delivery's time, adds no
\* other row and leaves every other row as it was; and no step of the webhook
\* or of the batcher removes a state row.
C27_OneStateRowPerFingerprint ==
    /\ [](\A item \in Items :
            LET after == process_item(AlertDb, item, now).alert_states
                fingerprint == item_fingerprint(item)
            IN  /\ DOMAIN after = DOMAIN alert_states \cup {fingerprint}
                /\ after[fingerprint].status = item_status(item)
                /\ after[fingerprint].last_received_at = now
                /\ \A f \in DOMAIN alert_states \ {fingerprint} :
                        after[f] = alert_states[f])
    /\ [][DOMAIN alert_states \subseteq DOMAIN alert_states']_vars

\* A second delivery for a fingerprint has been answered: the row that stored
\* "firing" now stores "resolved"
C27_Witness ==
    /\ response # <<>>
    /\ response.status_code = 202
    /\ response.body.status = "accepted"
    /\ response.body.count = 1
    /\ Len(alerts) = 2
    /\ alerts[1].fingerprint = "fp1" /\ alerts[1].status = STATUS_FIRING
    /\ alerts[2].fingerprint = "fp1" /\ alerts[2].status = STATUS_RESOLVED
    /\ DOMAIN alert_states = {"fp1"}
    /\ alert_states["fp1"].status = STATUS_RESOLVED
    /\ alert_states["fp1"].last_received_at = now

\* The request passes the token check of the configured settings
Authorized(request) ==
    IsSome(config.alert_webhook_secret) => request.token = config.alert_webhook_secret

\* The body is a JSON object whose "alerts" is a list of objects
HasAlertObjects(request) ==
    /\ request.body.valid
    /\ is_dict(request.body.json)
    /\ "alerts" \in DOMAIN request.body.json
    /\ is_list(request.body.json.alerts)
    /\ \A i \in DOMAIN request.body.json.alerts.items :
            is_dict(request.body.json.alerts.items[i])

Answer(request) == receive_alert(AlertDb, request, config.alert_webhook_secret, now)

\* C28: an authorized request whose "alerts" list holds N alert objects, sent
\* to any reachable store, is answered 202 {"status": "accepted", "count": N,
\* "triggered": M}; the alerts table is the old one followed by N new
\* records, and M is the number of the new records with batched = false.
C28_AcceptedCountsRecords ==
    \A request \in WebhookRequests :
        (Authorized(request) /\ HasAlertObjects(request)) =>
            LET after == Answer(request)
                N == Len(request_items(request))
                new == (Len(alerts) + 1)..Len(after.db.alerts)
                M == Cardinality({i \in new : ~after.db.alerts[i].batched})
            IN  /\ after.status_code = 202
                /\ after.body = [status |-> "accepted", count |-> N, triggered |-> M]
                /\ Len(after.db.alerts) = Len(alerts) + N
                /\ SubSeq(after.db.alerts, 1, Len(alerts)) = alerts
                /\ 0 <= M /\ M <= N

\* A payload of two identical firing items has been answered: two records,
\* the first left for the batcher, the second throttled
C28_Witness ==
    /\ response # <<>>
    /\ HasAlertObjects(response.request)
    /\ response.body = [status |-> "accepted", count |-> 2, triggered |-> 1]
    /\ Len(alerts) = 2
    /\ alerts[1].fingerprint = alerts[2].fingerprint
    /\ alerts[1].status = STATUS_FIRING /\ alerts[2].status = STATUS_FIRING
    /\ ~alerts[1].batched /\ alerts[2].batched

\* C29: with a secret configured, a request whose token is not the secret is
\* answered 401; a request that passes the token check and whose body is not
\* JSON is answered 400; neither changes the alerts or the state rows.
C29_RejectedRequestsWriteNothing ==
    \A request \in WebhookRequests :
        /\ (IsSome(config.alert_webhook_secret)
                /\ request.token # config.alert_webhook_secret) =>
                    /\ Answer(request).status_code = 401
                    /\ Answer(request).db = AlertDb
        /\ (Authorized(request) /\ ~request.body.valid) =>
                    /\ Answer(request).status_code = 400
                    /\ Answer(request).db = AlertDb

\* A well-formed payload with the wrong token has been answered 401 on a
\* store that already holds an alert and its state row
C29_Witness ==
    /\ response # <<>>
    /\ response.status_code = 401
    /\ response.request.token = Some("wrong")
    /\ HasAlertObjects(response.request)
    /\ Len(alerts) = 1
    /\ DOMAIN alert_states # {}

\* The parsed body is a JSON object without an "alerts" key
LacksAlertsKey(request) ==
    /\ request.body.valid
    /\ is_dict(request.body.json)
    /\ "alerts" \notin DOMAIN request.body.json

\* C30: an authorized request whose JSON object has no "alerts" key is
\* answered 202 with status "ignored", and sent to any reachable store it
\* changes no table.
C30_MissingAlertsKeyIgnored ==
    /\ (response # <<>> /\ Authorized(response.request)
            /\ LacksAlertsKey(response.request)) =>
                /\ response.status_code = 202
                /\ response.body.status = "ignored"
    /\ \A request \in WebhookRequests :
            (Authorized(request) /\ LacksAlertsKey(request)) =>
                Answer(request).db = AlertDb

\* C21: a request that passes the token check and carries a list of entries
\* leaves one new alert record for every entry that is an alert object, also
\* when another entry of the same list makes the handler raise.
C21_ErrorInOneItemSparesTheOthers ==
    [][(response' # response /\ Authorized(response'.request)) =>
            LET items == request_items(response'.request)
                objects == {i \in DOMAIN items : is_dict(items[i])}
            IN  Len(alerts') = Len(alerts) + Cardinality(objects)]_vars

----------------------------------------------------------------------------
(* Namespace incidents *)

\* The incidents of the key that are not RESOLVED
OpenIncidents(rows, key) ==
    active_incidents(rows, K8S_CLUSTER_NAME, key.namespace, key.incident_type,
                     {INCIDENT_ACTIVE, INCIDENT_INVESTIGATING})

\* C25: with the detector's passes run one after another, a key never has
\* more than one incident that is ACTIVE or INVESTIGATING, a key whose
\* condition the last pass observed has exactly one, however many passes
\* observed it, and an incident is added for a key only in a step that starts
\* with no ACTIVE or INVESTIGATING incident of that key.
C25_OneOpenIncidentPerKey ==
    /\ [](\A key \in IncidentKeys :
            /\ Cardinality(OpenIncidents(incidents, key)) <= 1
            /\ key \in detectors["d1"].observed =>
                    Cardinality(OpenIncidents(incidents, key)) = 1)
    /\ [][\A key \in IncidentKeys :
            (\E i \in DOMAIN incidents' \ DOMAIN incidents :
                    i \in OpenIncidents(incidents', key))
                => /\ OpenIncidents(incidents, key) = {}
                   /\ Cardinality(OpenIncidents(incidents', key)) = 1]_vars

\* Two passes in a row observed the condition of a key whose first incident
\* was resolved: its second incident, under investigation, is the only open one
C25_Witness ==
    /\ detectors["d1"].repeats = 2
    /\ IncidentKeySeq[1] \in detectors["d1"].observed
    /\ Len(incidents) = 2
    /\ incidents[1].status = INCIDENT_RESOLVED
    /\ incidents[2].status = INCIDENT_INVESTIGATING
    /\ OpenIncidents(incidents, IncidentKeySeq[1]) = {2}

\* C26: with two detector runs interleaved, a key never has two incidents
\* that are ACTIVE or INVESTIGATING.
C26_ConcurrentDetectorsOneOpenIncident ==
    \A key \in IncidentKeys : Cardinality(OpenIncidents(incidents, key)) <= 1

----------------------------------------------------------------------------
(* The notifier *)

\* C31: a call of send_analysis by the worker makes at most MAX_ATTEMPTS
\* attempts, does not raise, returns true exactly when one of the attempts
\* it made succeeded, and leaves the rollout's notify_status SENT when it
\* returned true and FAILED otherwise.
C31_NotifierNeverRaises ==
    (probe # <<>> /\ probe.function = "send_analysis") =>
        LET result == probe.result
            outcomes == probe.argument.outcomes
        IN  /\ result.attempts <= MAX_ATTEMPTS
            /\ ~result.raised
            /\ result.returned <=> \E i \in 1..result.attempts : outcomes[i] = "ok"
            /\ rollouts[probe.argument.rollout_id].notify_status =
                    IF result.returned THEN "SENT" ELSE "FAILED"

\* The bound on the attempts alone
AttemptsBounded ==
    (probe # <<>> /\ probe.function = "send_analysis") =>
        probe.result.attempts <= MAX_ATTEMPTS

----------------------------------------------------------------------------
(* New rollouts *)

\* C32: an event that makes handle_deployment_event create a rollout, for any
\* deployment and in any reachable store, adds one row whose status is
\* PENDING when the deployment's phase is PENDING and ROLLING_OUT for every
\* other phase, never SUCCESS or FAILED, with started_at the time of the
\* event and analysis_status and notify_status PENDING; the rows already
\* stored stay as they are.
C32_NewRolloutStatus ==
    \A dep \in Deployments, event_type \in EventTypes,
       namespace_metadata \in NamespaceMetadatas :
        LET after == handle_deployment_event(rollouts, dep, event_type,
                                             K8S_CLUSTER_NAME, namespace_metadata, now)
            new == after[Len(after)]
        IN  Len(after) > Len(rollouts) =>
                /\ Len(after) = Len(rollouts) + 1
                /\ SubSeq(after, 1, Len(rollouts)) = rollouts
                /\ new.status = IF PhaseOf(dep) = "PENDING" THEN "PENDING"
                                ELSE "ROLLING_OUT"
                /\ new.status \notin TERMINAL_STATUSES
                /\ new.started_at = Some(now)
                /\ new.analysis_status = "PENDING"
                /\ new.notify_status = "PENDING"

\* Rollouts have been created at different times, one as PENDING and one as
\* ROLLING_OUT
C32_Witness ==
    \E i, j \in DOMAIN rollouts :
        /\ rollouts[i].status = "PENDING"
        /\ rollouts[j].status = "ROLLING_OUT"
        /\ rollouts[i].started_at # rollouts[j].started_at
        /\ rollouts[i].analysis_status = "PENDING"
        /\ rollouts[i].notify_status = "PENDING"

----------------------------------------------------------------------------
(* The watch loop *)

\* C33: an exception, raised by the subscription, by the stream or while an
\* event is handled, takes the watch loop to its backoff and from there only
\* back to the subscription; and the loop is always eventually subscribing or
\* consuming again: it never stops for good.
C33_WatchLoopResubscribes ==
    /\ [][/\ (watcher.pc \in {"subscribing", "consuming"}
                /\ watcher'.pc \notin {"subscribing", "consuming"})
                    => watcher'.pc = "backoff"
          /\ (watcher.pc = "backoff" /\ watcher'.pc # "backoff")
                    => watcher'.pc = "subscribing"]_vars
    /\ []<>(watcher.pc \in {"subscribing", "consuming"})

\* The loop is in its backoff after an error, with rollouts already stored
C33_Witness ==
    /\ watcher.pc = "backoff"
    /\ Len(rollouts) >= 1

----------------------------------------------------------------------------
(* The namespace metadata cache *)

\* The last call of get that has returned
CacheCall == probe

\* C34: a call of get returns from the cache exactly when the map held, at
\* its lookup, an entry for the namespace whose time was less than the TTL
\* before the time the call read, and then the value it returns was fetched
\* less than one TTL before that time; a call that misses stores what it
\* fetched under the time it read; and a caller is inside one of the two
\* with blocks only while it holds the lock, so at most one caller is.
C34_CacheHitWithinTtl ==
    /\ [](/\ (CacheCall # <<>>) =>
                LET call == CacheCall.argument
                    result == CacheCall.result
                IN  /\ result.from_cache <=>
                            /\ IsSome(result.seen)
                            /\ call.now - The(result.seen) < TTL_SECONDS
                    /\ result.from_cache =>
                            call.now - result.data.fetched_at < TTL_SECONDS
                    /\ result.data.namespace = call.namespace
          /\ \A c \in Callers :
                callers[c].pc \in {"read", "write"} => cache_lock = Some(c))
    /\ [][\A c \in Callers :
            (callers[c].pc = "write" /\ callers'[c].pc = "idle") =>
                ns_cache'[callers[c].namespace] =
                    [time |-> callers[c].now, data |-> callers[c].data]]_vars

\* A call has returned a value from the cache that another caller fetched
\* one tick earlier, while the other caller is inside get again
C34_Witness ==
    /\ CacheCall # <<>>
    /\ CacheCall.result.from_cache
    /\ CacheCall.argument.now - CacheCall.result.data.fetched_at = CacheTickSeconds
    /\ \E c \in Callers : c # CacheCall.argument.caller /\ callers[c].pc = "fetch"

----------------------------------------------------------------------------
(* C35 *)

\* The number of pods of the list that satisfy P
PodsWith(pods, P(_)) == Cardinality({i \in 1..Len(pods) : P(pods[i])})

\* C35: in what analyze_pod_failures returns, crashloop_pods and
\* image_pull_pods are at most total_pods (a pod counts at most once in
\* each), pending_scheduling_pods is the number of pods whose phase is
\* Pending and total_pods is the number of pods listed
C35_PodCountsBounded ==
    (probe # <<>> /\ probe.function = "analyze_pod_failures") =>
        LET pods == probe.argument
            signals == probe.result
            pending(pod) == pod.phase = "Pending"
        IN  /\ signals.crashloop_pods <= signals.total_pods
            /\ signals.image_pull_pods <= signals.total_pods
            /\ signals.pending_scheduling_pods = PodsWith(pods, pending)
            /\ signals.total_pods = Len(pods)

\* Supporting: the two counts the loop gets right
PendingAndTotalCounted ==
    (probe # <<>> /\ probe.function = "analyze_pod_failures") =>
        LET pending(pod) == pod.phase = "Pending"
        IN  /\ probe.result.pending_scheduling_pods = PodsWith(probe.argument, pending)
            /\ probe.result.total_pods = Len(probe.argument)

----------------------------------------------------------------------------
(* C36 *)

\* The moves of a job's status the job loop makes
JobMoves ==
    {<<jobs[j].status, jobs'[j].status>> : j \in DOMAIN jobs} \ {<<s, s>> : s \in {"pending", "running", "done", "failed"}}

Running == {j \in DOMAIN jobs : jobs[j].status = "running"}

\* C36 as stated: a job's status only moves pending -> running -> done or
\* pending -> running -> failed, and at most one job is running at any time
C36_OnlyThroughRunning ==
    /\ [][JobMoves \subseteq {<<"pending", "running">>, <<"running", "done">>,
                              <<"running", "failed">>}]_vars
    /\ [](Cardinality(Running) <= 1)

\* C36, amended: a job's status only moves pending -> running, running ->
\* done, running -> failed or, when marking it running raised, pending ->
\* failed; a job is set running only from pending, done and failed are never
\* left, rows are never removed, and at most one job is running at any time
C36_JobStatusMoves ==
    /\ [][/\ JobMoves \subseteq {<<"pending", "running">>, <<"running", "done">>,
                                 <<"running", "failed">>, <<"pending", "failed">>}
          /\ DOMAIN jobs \subseteq DOMAIN jobs'
          /\ (<<"pending", "failed">> \in JobMoves) => analyzer.pc = "except"]_vars
    /\ [](Cardinality(Running) <= 1)

\* Two jobs were read in one pass; one is finished and the worker is
\* investigating the other
C36_Witness ==
    /\ analyzer.pc = "investigating"
    /\ jobs[analyzer.job].status = "running"
    /\ \E j \in DOMAIN jobs : jobs[j].status \in {"done", "failed"}
    /\ \E j \in DOMAIN jobs : jobs[j].status = "failed" /\ jobs[j].started_at = None

----------------------------------------------------------------------------
(* C37 *)

Active(rollout_id) ==
    /\ rollout_id \in DOMAIN rollouts
    /\ rollouts[rollout_id].status \in {"PENDING", "ROLLING_OUT"}

Settled(rollout_id) ==
    /\ rollout_id \in DOMAIN rollouts
    /\ rollouts[rollout_id].status \in {"SUCCESS", "FAILED"}

\* C37: under a fair reconcile loop every rollout that is PENDING or
\* ROLLING_OUT eventually reaches SUCCESS or FAILED, whatever the cluster
\* does, including the deletion of the deployment
C37_ActiveRolloutsSettle ==
    \A rollout_id \in 1..MaxRollouts : Active(rollout_id) ~> Settled(rollout_id)

\* Supporting: as long as the deployment is never deleted, every active
\* rollout does settle
SettleWhileDeployed ==
    ([]deployed) => \A rollout_id \in 1..MaxRollouts : Active(rollout_id) ~> Settled(rollout_id)

----------------------------------------------------------------------------
(* C38 *)

PendingJob(job_id) == job_id \in DOMAIN jobs /\ jobs[job_id].status = "pending"

FinishedJob(job_id) == job_id \in DOMAIN jobs /\ jobs[job_id].status \in {"done", "failed"}

\* C38: every job the batcher creates is eventually taken by the running
\* analyzer service and reaches done or failed
C38_AlertJobsFinish ==
    \A job_id \in 1..MaxAlerts : PendingJob(job_id) ~> FinishedJob(job_id)

\* Supporting: where the job loop of the first AnalysisWorker runs and its
\* thread does not end, every pending job is finished
JobLoopFinishesJobs ==
    ([](analyzer.pc # "ended")) =>
        \A job_id \in 1..MaxAlerts : PendingJob(job_id) ~> FinishedJob(job_id)

----------------------------------------------------------------------------
(* C39 *)

\* C39: the alert-job sub-loop leaves every job that is not of type "alert"
\* alone: such a job is never marked running, done or failed by it
C39_OnlyAlertJobsDispatched ==
    [][\A job_id \in DOMAIN jobs :
          jobs[job_id].type # "alert" => jobs'[job_id] = jobs[job_id]]_vars

\* Supporting: the sub-loop never calls the agent and never posts to Slack
\* for a job that has no batch
NoAgentCallWithoutBatch ==
    \A call \in BagToSet(agent_log) :
        call.type = "alert" => jobs[call.id].type = "alert"

----------------------------------------------------------------------------
(* C40 *)

\* The alerts whose batch_id is the batch
Members(b) == {i \in DOMAIN alerts : alerts[i].batch_id = Some(b)}

\* Once batched is true, the flag and batch_id of the alert stay as they are
BatchedIsFinal ==
    [][\A i \in DOMAIN alerts :
          alerts[i].batched =>
              /\ alerts'[i].batched
              /\ alerts'[i].batch_id = alerts[i].batch_id]_vars

\* A batch_id refers to a stored batch and every batch has a member
BatchesHaveMembers ==
    /\ \A i \in DOMAIN alerts :
          IsSome(alerts[i].batch_id) => The(alerts[i].batch_id) \in DOMAIN batches
    /\ \A b \in DOMAIN batches : Members(b) # {}

\* C40: an alert is in at most one batch; once batched its flag and batch_id
\* never change; a batch_id refers to an existing batch; every batch has at
\* least one member, and the correlation key (namespace, service) of every
\* member is the batch's (namespace, service)
C40_BatchMembership ==
    /\ BatchedIsFinal
    /\ [](/\ BatchesHaveMembers
          /\ \A b \in DOMAIN batches : \A i \in Members(b) :
                key_pair(alerts[i].labels) = <<batches[b].namespace, batches[b].service>>)

\* Supporting: the members of a batch share the formatted key the batcher
\* groups by, and the batch's two fields joined give that key back
MembersShareJoinedKey ==
    /\ BatchedIsFinal
    /\ [](/\ BatchesHaveMembers
          /\ \A b \in DOMAIN batches : \A i \in Members(b) :
                group_key(alerts[i].labels) =
                    batches[b].namespace \o <<"/">> \o batches[b].service)

============================================================================
